---------------------------- MODULE Spec2Model ----------------------------
(***************************************************************************)
(* Model of the walship shipping pipeline: the index reader               *)
(* (pkg/wal IndexReader), the frame batcher (internal/app Batcher over    *)
(* domain.Batch), the persisted state (pkg/state, adapters/fs) and the    *)
(* agent loop (internal/app Agent.Run / Agent.trySend).                   *)
(*                                                                         *)
(* Time is counted in whole units of 500 ms (the default poll interval).  *)
(* The batcher's clock is kept as sinceSend = time.Since(lastSend), which *)
(* stops counting once it has passed both intervals: the code only ever   *)
(* compares it with send_interval and hard_interval.                      *)
(*                                                                         *)
(* The lines of an index file are records [sz, ll, good, json]: sz is the *)
(* length of the frame's compressed blob, ll the length of the index line *)
(* including the newline, json says whether the line parses, good whether *)
(* it parses and its blob can be read.  A frame is [line, sz, ll, rd]: line is its          *)
(* (file, frame_number), rd numbers the Next call that returned it, in    *)
(* the order of the calls (Stamp).                                        *)
(***************************************************************************)
EXTENDS Integers, Sequences, FiniteSets, TLC

\* ---------------------------------------------------------------- bounds
\* max_batch_bytes of the configuration the agent runs with
MaxBatchBytes == 2
\* send_interval and hard_interval of that configuration, in time units
SendInterval == 1
HardInterval == 2
\* number of lines of the index file
NumLines == 2
\* how many faults a behaviour may hold: unreadable index lines, failed
\* sends, failed saves, restarts
MaxFaults == 2
\* batcher-only specification: number of Add calls explored
MaxOps == 3
\* rotation-only specification: day directories and segments per day
MaxDay == 3
MaxSeg == 2
\* lifecycle-only specification: number of TransitionTo calls explored
MaxCalls == 3
\* facade-only specification: registered plugins, and Start and Stop calls
\* made in all
NumPlugins == 2
MaxApiCalls == 3
\* cleanup-only specification: day directories, segments per directory, and
\* the largest low watermark
CleanDays == 2
CleanSegs == 2
MaxMark == 3
\* state-file-only specification: number of Save calls explored
MaxSaves == 3
\* backoff-only specification: bits of a duration, and Sleep calls in a row
DurBits == 5
MaxSleeps == 4

\* ------------------------------------------------------------- constants
\* the default poll interval, 500 ms: the unit of time
PollInterval == 1
\* DefaultBackoffInitial, 500 ms, and DefaultBackoffMax, 10 s
DefaultBackoffInitial == 1
DefaultBackoffMax == 20

VARIABLES
    cfg,        \* configuration: [max, send, hard, once]
    idx,        \* the index file: sequence of [sz, ll, good, json]
    avail,      \* number of bytes of the index file the appender has written
    dir,        \* the WAL directory: [days, files]
    curIdx,     \* IndexReader.idxPath: [day, seg]
    ret,        \* reader-only specifications: what the last Next returned
    lc,         \* Lifecycle: [state, from, to, err, emitted, calls, changes]
    cursor,     \* byte position of the buffered index reader in the file
    idxOff,     \* IndexReader.idxOff
    batch,      \* Batcher.batch (domain.Batch)
    sinceSend,  \* time.Since(Batcher.lastSend)
    st,         \* Run's in-memory State
    disk,       \* status.json
    boCur,      \* backoff.current
    pc,         \* the agent: "init", "loop", "flush", "poll", "done"
    after,      \* what follows the pending trySend: "loop", "eof", "cancel"
    shouldSend, \* Run's local shouldSend: what Batcher.Add returned in
                \* this iteration (FALSE once the iteration's trySend is over)
    cancelled,  \* ctx.Done() is closed
    gateOK,     \* what ResourceGate.OK() answers at the pending flush
    lastReq,    \* history: the last Send call of this run, [frames, ok]
    retry,      \* history: the Send call before lastReq, in this run, failed
    acked,      \* history: lines of the frames of the successful Send calls
    ackedRd,    \* history: largest rd among the frames of successful Sends
    sentRd,     \* history: rd of the frames passed to Send in this run
    owed,       \* history: lines of the batch a kill caught between Send and
                \* Save, not yet passed to Send again
    events,     \* history: events emitted by the last trySend
    sleeps,     \* history: Backoff.Sleep calls made by the last trySend
    nread,      \* history: number of frames offered in this run
    run,        \* history: number of process starts so far
    faults,     \* history: number of faults so far
    ops,        \* batcher-only specification: frames offered since Reset
    ws,         \* the Walship facade: its callers, workers and plugins
    wal,        \* the WAL directory as the cleanup runner sees it
    sf,         \* the state directory: status.json and status.json.tmp
    bk,         \* a Backoff on its own: [initial, max, current, k, slept]
    wt,         \* the waits of the agent loop: where it waits, and on what
    ev          \* the lifecycle's event handler: the events delivered

vars == <<cfg, idx, cursor, idxOff, batch, sinceSend, st, disk, boCur, pc,
          after, shouldSend, cancelled, lastReq, retry, acked, ackedRd,
          sentRd, events, sleeps, nread, run, faults, ops, gateOK,
          owed, avail, dir, curIdx, ret, lc, ws, wal, sf, bk, wt, ev>>

\* the variables of the agent loop and its reader
agentVars == <<cfg, idx, cursor, idxOff, batch, sinceSend, st, disk, boCur,
               pc, after, shouldSend, cancelled, lastReq, retry, acked,
               ackedRd, sentRd, events, sleeps, nread, run, faults, ops,
               gateOK, owed, avail, dir, curIdx, ret>>

Min(a, b) == IF a < b THEN a ELSE b
Max(a, b) == IF a < b THEN b ELSE a

RECURSIVE SumSeq(_)
SumSeq(s) == IF s = <<>> THEN 0 ELSE Head(s) + SumSeq(Tail(s))

Range(s) == {s[i] : i \in 1..Len(s)}

SetMax(S) == CHOOSE x \in S : \A y \in S : y <= x

SetMin(S) == CHOOSE x \in S : \A y \in S : x <= y

\* ------------------------------------------------------- domain.Batch
NewBatch == [Frames |-> <<>>, CompressedData |-> <<>>,
             IdxLineLengths |-> <<>>, TotalBytes |-> 0]

\* len(compressed)
BlobLen(c) == c.n

\* mutant: the frame is put in front of the batch
BatchAddFront(b, frame, compressed, idxLineLen) ==
    [Frames |-> <<frame>> \o b.Frames,
     CompressedData |-> <<compressed>> \o b.CompressedData,
     IdxLineLengths |-> <<idxLineLen>> \o b.IdxLineLengths,
     TotalBytes |-> b.TotalBytes + BlobLen(compressed)]

BatchAdd(b, frame, compressed, idxLineLen) ==
    [Frames |-> Append(b.Frames, frame),
     CompressedData |-> Append(b.CompressedData, compressed),
     IdxLineLengths |-> Append(b.IdxLineLengths, idxLineLen),
     TotalBytes |-> b.TotalBytes + BlobLen(compressed)]

BatchEmpty(b) == Len(b.Frames) = 0

\* mutant: Reset forgets to clear TotalBytes
BatchResetKeepTotal(b) ==
    [Frames |-> <<>>, CompressedData |-> <<>>,
     IdxLineLengths |-> <<>>, TotalBytes |-> b.TotalBytes]

BatchReset(b) ==
    [Frames |-> <<>>, CompressedData |-> <<>>,
     IdxLineLengths |-> <<>>, TotalBytes |-> 0]

TotalIdxAdvance(b) == SumSeq(b.IdxLineLengths)

LastFrame(b) == b.Frames[Len(b.Frames)]

\* ------------------------------------------------------- app.Batcher
\* the clock stops once it has passed both intervals
Saturation == Max(cfg.send, cfg.hard)
Later(t, d) == Min(t + d, Saturation)

\* mutant: an Add that fills the batch to the cap returns the size trigger
BatcherAddCapTrigger(b, frame, compressed, idxLineLen) ==
    IF cfg.max > 0 /\ BlobLen(compressed) > cfg.max
    THEN [batch |-> BatchAdd(b, frame, compressed, idxLineLen), trigger |-> TRUE]
    ELSE IF cfg.max > 0 /\ b.TotalBytes + BlobLen(compressed) > cfg.max
    THEN [batch |-> b, trigger |-> TRUE]
    ELSE [batch |-> BatchAdd(b, frame, compressed, idxLineLen),
          trigger |-> (cfg.max > 0 /\ b.TotalBytes + BlobLen(compressed) = cfg.max)]

\* Batcher.Add: the batch after the call and the size trigger it returns
BatcherAdd(b, frame, compressed, idxLineLen) ==
    IF cfg.max > 0 /\ BlobLen(compressed) > cfg.max
    THEN [batch |-> BatchAdd(b, frame, compressed, idxLineLen), trigger |-> TRUE]
    ELSE IF cfg.max > 0 /\ b.TotalBytes + BlobLen(compressed) > cfg.max
    THEN [batch |-> b, trigger |-> TRUE]
    ELSE [batch |-> BatchAdd(b, frame, compressed, idxLineLen), trigger |-> FALSE]

\* mutant: only the soft interval is looked at
ShouldSendSoftOnly(b, elapsed) ==
    IF BatchEmpty(b) THEN FALSE
    ELSE elapsed >= cfg.send

ShouldSend(b, elapsed) ==
    IF BatchEmpty(b) THEN FALSE
    ELSE elapsed >= cfg.send \/ elapsed >= cfg.hard

\* mutant: the soft interval is taken for the hard one
ShouldForceSendSoft(b, elapsed) ==
    IF BatchEmpty(b) THEN FALSE
    ELSE elapsed >= cfg.send

\* mutant: the hard interval never forces
ShouldForceSendNever(b, elapsed) ==
    IF BatchEmpty(b) THEN FALSE
    ELSE FALSE

ShouldForceSend(b, elapsed) ==
    IF BatchEmpty(b) THEN FALSE
    ELSE elapsed >= cfg.hard

HasPending(b) == ~BatchEmpty(b)

\* ------------------------------------------------------- pkg/state
EmptyState == [IdxPath |-> "", IdxOffset |-> 0, LastFrame |-> 0]

UpdateAfterSend(s, idxAdvance, lastFrame) ==
    [s EXCEPT !.IdxOffset = s.IdxOffset + idxAdvance, !.LastFrame = lastFrame]

\* StateFileRepository.Load: the empty state when status.json is absent
Load == IF disk.exists THEN disk.state ELSE EmptyState

\* ------------------------------------------------------- wal.IndexReader
IdxName == "seg-000001.wal.idx"

\* byte offset at which line i starts (line Len(idx)+1 starts at the end)
LineStart(i) == SumSeq([k \in 1..(i - 1) |-> idx[k].ll])

FileLen == LineStart(Len(idx) + 1)

\* the line holding byte c, for c < FileLen
LineAt(c) == CHOOSE i \in 1..Len(idx) : LineStart(i) <= c /\ c < LineStart(i + 1)

\* IndexReader.Next from byte position c, without the change of index:
\* ReadBytes('\n') consumes up to the end of the line holding c, or, when the
\* newline is not written yet, all the bytes there are, and then reports
\* io.EOF; a line read from its first byte whose JSON and blob are good is
\* returned, any other read is an error that leaves idxOff alone.
ReadAt(c, written) ==
    IF c >= written
    THEN [kind |-> "eof", line |-> 0, cursor |-> c, len |-> 0]
    ELSE LET i == LineAt(c) IN
         IF LineStart(i + 1) > written
         THEN [kind |-> "eof", line |-> i, cursor |-> written, len |-> 0]
         ELSE
         IF c = LineStart(i) /\ idx[i].good
         THEN [kind |-> "frame", line |-> i, cursor |-> LineStart(i + 1),
               len |-> idx[i].ll]
         ELSE [kind |-> "error", line |-> i, cursor |-> LineStart(i + 1),
               len |-> LineStart(i + 1) - c]

\* Next on the index file as far as it is written
ReaderNext(c) == ReadAt(c, avail)

\* the frame the first successful Next returns for a reader whose buffered
\* cursor is at c, once the file is written in full; 0 when there is none
RECURSIVE NextFrameFrom(_)
NextFrameFrom(c) ==
    LET r == ReadAt(c, FileLen)
    IN IF r.kind = "frame" THEN r.line
       ELSE IF r.kind = "eof" THEN 0
       ELSE NextFrameFrom(r.cursor)

\* an index path: day directory and segment number
FirstIndex == [day |-> 1, seg |-> 1]

\* no index: what nextIndexAfter returns with ok = false
NoIndex == [day |-> 0, seg |-> 0]

\* a WAL directory holding one day with one index
OneIndexDir == [days |-> {1}, files |-> {FirstIndex}]

\* mutant: the newest later day directory is taken, not the next one
nextIndexAfterNewestDay(cur) ==
    LET cand == [day |-> cur.day, seg |-> cur.seg + 1]
        later == {d \in dir.days : d > cur.day}
    IN IF cand \in dir.files THEN cand
       ELSE IF later = {} THEN NoIndex
       ELSE LET nextDay == CHOOSE d \in later : \A e \in later : e <= d
                first == [day |-> nextDay, seg |-> 1]
            IN IF first \in dir.files THEN first ELSE NoIndex

\* nextIndexAfter: seg+1 of the same day; else seg-000001 of the smallest
\* later day directory; else none
nextIndexAfter(cur) ==
    LET cand == [day |-> cur.day, seg |-> cur.seg + 1]
        later == {d \in dir.days : d > cur.day}
    IN IF cand \in dir.files THEN cand
       ELSE IF later = {} THEN NoIndex
       ELSE LET nextDay == CHOOSE d \in later : \A e \in later : d <= e
                first == [day |-> nextDay, seg |-> 1]
            IN IF first \in dir.files THEN first ELSE NoIndex

\* nothing returned yet
NoRet == [kind |-> "none", line |-> 0]

\* ------------------------------------------------------- app.Lifecycle
States == {"Stopped", "Starting", "Running", "Stopping", "Crashed"}

\* NewLifecycle: Stopped, and no TransitionTo call made yet
NewLifecycle == [state |-> "Stopped", from |-> "Stopped", to |-> "",
                 err |-> "", emitted |-> FALSE, calls |-> 0, changes |-> 0]

\* Lifecycle.TransitionTo from state s: the state after the call, the error
\* returned, and whether OnStateChange was emitted
TransitionTo(s, newState) ==
    LET refuse(e) == [state |-> s, err |-> e, emitted |-> FALSE]
    IN IF s = "Stopped" /\ newState # "Starting"
       THEN refuse("ErrNotRunning")
       ELSE IF s = "Starting" /\ newState \notin {"Running", "Crashed"}
       THEN refuse("ErrAlreadyRunning")
       ELSE IF s = "Running" /\ newState \notin {"Stopping", "Crashed"}
       THEN refuse("ErrAlreadyRunning")
       ELSE IF s = "Stopping" /\ newState \notin {"Stopped", "Crashed"}
       THEN refuse("ErrAlreadyRunning")
       ELSE IF s = "Crashed" /\ newState # "Starting"
       THEN refuse("ErrNotRunning")
       ELSE [state |-> newState, err |-> "nil", emitted |-> TRUE]

\* ------------------------------------------------------- app.backoff
\* backoff.Sleep, lines 38-42: the next duration
BackoffNext(cur) ==
    IF cur * 2 > DefaultBackoffMax THEN DefaultBackoffMax ELSE cur * 2

\* ------------------------------------------------------- app.Agent
\* mutant: the frames are listed last first
batchToFrameDataReversed(b) ==
    [i \in 1..Len(b.Frames) |->
        [Frame |-> b.Frames[Len(b.Frames) + 1 - i],
         CompressedData |-> b.CompressedData[Len(b.Frames) + 1 - i]]]

batchToFrameData(b) ==
    [i \in 1..Len(b.Frames) |->
        [Frame |-> b.Frames[i], CompressedData |-> b.CompressedData[i]]]

\* mutant: the send error is reported as final
SendErrorEventFinal(b) ==
    [kind |-> "SendError", frames |-> Len(b.Frames), retryable |-> FALSE]

\* trySend, lines 225-227: emitter.OnSendError(err, batch.Size(), true)
SendErrorEvent(b) ==
    [kind |-> "SendError", frames |-> Len(b.Frames), retryable |-> TRUE]

\* trySend, lines 240-242: emitter.OnSendSuccess(batch.Size(), ...)
SendSuccessEvent(b) ==
    [kind |-> "SendSuccess", frames |-> Len(b.Frames), retryable |-> FALSE]

\* blob lengths: small, exactly the cap, larger than the cap
Sizes == {1, MaxBatchBytes, MaxBatchBytes + 1}

\* an index line: the line length follows the size so that lines differ
LineOf(sz, good) ==
    [sz |-> sz, ll |-> 2 + (sz % 2), good |-> good, json |-> good]

\* index files of the agent: at most one line that cannot be read (the
\* blob length of such a line plays no part, its line length does)
Files == {f \in [1..NumLines -> {LineOf(z, TRUE) : z \in Sizes}
                                  \cup {LineOf(z, FALSE) : z \in Sizes \ {1}}] :
            Cardinality({i \in 1..NumLines : ~f[i].good}) <= 1}

NoReq == [frames |-> <<>>, ok |-> FALSE]

\* the number of the k-th Next call of run r that returned a frame
Stamp(r, k) == r * (NumLines + 1) + k

BadLines(f) == Cardinality({i \in 1..Len(f) : ~f[i].good})

\* ------------------------------------------------ walship.cleanupRunner
\* a segment is named like its index, [day, seg]; day 0 is the WAL root
RootDay == 0
Segments == [day : 0..CleanDays, seg : 1..CleanSegs]

\* the sizes of a segment's .wal.gz and .wal.idx files
GzSize(k) == k.seg
IdxSize(k) == 1

\* the numbers of a set in ascending order (sort.Strings, sort.Ints)
RECURSIVE Ascending(_)
Ascending(S) == IF S = {} THEN <<>>
                ELSE <<SetMin(S)>> \o Ascending(S \ {SetMin(S)})

\* concatenation of a sequence of sequences
RECURSIVE Flatten(_)
Flatten(ss) == IF ss = <<>> THEN <<>> ELSE Head(ss) \o Flatten(Tail(ss))

\* walDirSize: the bytes of every file under the WAL root
walDirSize(gz, idxs) ==
    LET RECURSIVE Total(_, _)
        Total(G, I) ==
            IF G # {} THEN LET k == CHOOSE x \in G : TRUE
                           IN GzSize(k) + Total(G \ {k}, I)
            ELSE IF I # {} THEN LET k == CHOOSE x \in I : TRUE
                                IN IdxSize(k) + Total(G, I \ {k})
            ELSE 0
    IN Total(gz, idxs)

\* currentActiveDay: the day directory of status.json's idx_path, none
\* (RootDay) when there is no status.json, no idx_path or no day directory
currentActiveDay(status) == status.day

\* scanSegmentDir: the segments of one directory that have a .wal.gz, by
\* number, each with the sizes of its files (no .wal.idx: size 0)
scanSegmentDir(gz, idxs, day) ==
    LET nums == Ascending({k.seg : k \in {x \in gz : x.day = day}})
    IN [j \in 1..Len(nums) |->
          LET k == [day |-> day, seg |-> nums[j]]
          IN [key |-> k, gzSize |-> GzSize(k), hasIdx |-> k \in idxs,
              idxSize |-> IF k \in idxs THEN IdxSize(k) ELSE 0]]

orderedSegmentsSkipAfter(gz, idxs, days, skipFromDay) ==
    LET ds == Ascending(days)
    IN scanSegmentDir(gz, idxs, RootDay) \o
       Flatten([j \in 1..Len(ds) |->
                  IF skipFromDay # RootDay /\ ds[j] > skipFromDay
                  THEN <<>> ELSE scanSegmentDir(gz, idxs, ds[j])])

orderedSegmentsNewestFirst(gz, idxs, days, skipFromDay) ==
    LET ds == Ascending(days)
        n == Len(ds)
    IN scanSegmentDir(gz, idxs, RootDay) \o
       Flatten([j \in 1..n |->
                  IF skipFromDay # RootDay /\ ds[n + 1 - j] >= skipFromDay
                  THEN <<>> ELSE scanSegmentDir(gz, idxs, ds[n + 1 - j])])

\* orderedSegments: the segments of the WAL root, then those of the day
\* directories in ascending order, without the days from skipFromDay on
orderedSegments(gz, idxs, days, skipFromDay) ==
    LET ds == Ascending(days)
    IN scanSegmentDir(gz, idxs, RootDay) \o
       Flatten([j \in 1..Len(ds) |->
                  IF skipFromDay # RootDay /\ ds[j] >= skipFromDay
                  THEN <<>> ELSE scanSegmentDir(gz, idxs, ds[j])])

\* removeSegment: the bytes freed
bytesFreed(seg) == seg.gzSize + seg.idxSize

\* oldestIndex: the smallest index of the earliest day directory, or of the
\* WAL root when there is no day directory; NoIndex when there is none
oldestIndex(d) ==
    LET in(day) == {f \in d.files : f.day = day}
        first(day) == IF in(day) = {} THEN NoIndex
                      ELSE [day |-> day,
                            seg |-> SetMin({f.seg : f \in in(day)})]
    IN IF d.days # {} THEN first(SetMin(d.days)) ELSE first(RootDay)

\* newCleanupRunner over a WAL root with the .wal.gz files gz; status is the
\* idx_path of status.json, NoIndex when there is none.  History of the
\* pass: the idx_path it read (seen), the size and the files it found
\* (startSize, scanGz, scanIdx) and the segments it removed, in order
NewCleanup(gz, status, high, low) ==
    [gz |-> gz, status |-> status, high |-> high, low |-> low,
     cpc |-> "idle", curSize |-> 0, segs |-> <<>>,
     seen |-> NoIndex, startSize |-> 0, scanGz |-> {}, scanIdx |-> {},
     removed |-> <<>>]

\* a WAL directory the cleanup runner never looks at
NoWal == NewCleanup({}, NoIndex, 0, 0)

\* --------------------------------------------- fs.StateFileRepository
\* the files of the state directory are inodes: the one status.json names,
\* the one status.json.tmp names, and one a reader may still hold open
Inodes == {1, 2, 3}
NoInode == 0

\* the JSON text of the v-th state saved, written and read in two pieces
Full(v) == <<v, v>>

\* the state directory before the first Save, nobody reading or writing:
\* ino is the text of each inode, json and tmp are the inodes the two names
\* stand for, ver the number of Save calls begun, spc and wfd the Save in
\* progress, rpc, rfd and got the read in progress.  History: committed is
\* the state of the last rename, rlo the state status.json held when the
\* read opened it, res the text the last read returned
NoStateDir == [ino |-> [i \in Inodes |-> <<>>], json |-> NoInode,
               tmp |-> NoInode, ver |-> 0, spc |-> "idle", wfd |-> NoInode,
               committed |-> 0, rpc |-> "idle", rfd |-> NoInode,
               got |-> <<>>, rlo |-> 0, res |-> <<>>]

\* an inode no name and no open file refers to
FreeInode(d) == SetMin(Inodes \ {d.json, d.tmp, d.rfd, d.wfd})


\* ------------------------------------------------- lifecycle.Backoff
\* time.Duration is a signed integer of 64 bits; the model keeps DurBits
\* bits of it, so that the doubling in Sleep can leave the range
MinDuration == 0 - 2 ^ (DurBits - 1)
MaxDuration == 2 ^ (DurBits - 1) - 1

\* what a signed integer of DurBits bits holds when the exact result is n
Wrap(n) == ((n + 2 ^ (DurBits - 1)) % 2 ^ DurBits) - 2 ^ (DurBits - 1)

Abs(n) == IF n < 0 THEN 0 - n ELSE n

\* NewBackoff.  History: k counts the Sleep calls since the last Reset (or
\* since NewBackoff), last is the last call made and slept the duration the
\* last Sleep passed to time.Sleep
NewBackoff(initial, max) ==
    [initial |-> initial, max |-> max, current |-> initial, k |-> 0,
     last |-> "new", slept |-> 0]

\* Sleep, lines 33-34: the durations time.Duration(float64(current) + jitter)
\* can take, jitter being 0.2 * current * r with r in [-1, 1); the conversion
\* to time.Duration drops the fraction (floating point is taken as exact)
SleepDurations(cur) ==
    IF cur = 0 THEN {0}
    ELSE {(IF cur < 0 THEN 0 - m ELSE m) :
             m \in ((4 * Abs(cur)) \div 5)..((6 * Abs(cur) - 1) \div 5)}

\* Sleep, lines 38-42: current *= 2, capped at max
Doubled(b) ==
    IF Wrap(b.current * 2) > b.max THEN b.max ELSE Wrap(b.current * 2)

\* a backoff nothing uses
NoBackoff == [initial |-> 0, max |-> 0, current |-> 0, k |-> 0,
              last |-> "none", slept |-> 0]

\* ---------------------------------------- the lifecycle's event handler
\* the threads that call TransitionTo on the lifecycle of a Walship: the one
\* that calls Start and Stop, and the agent goroutine
Threads == {"caller", "worker"}

\* OnStateChange(StateChangeEvent{Previous, Current})
StateChange(previous, current) == [Previous |-> previous, Current |-> current]
NoEvent == StateChange("", "")

\* pc is where each thread is, pend the event a thread has still to emit
\* after TransitionTo released the lock, log the events the handler has
\* received, cancelled whether Stop has cancelled the run context, napi the
\* number of Start and Stop calls made
NewHandler == [pc |-> [t \in Threads |-> "idle"],
               pend |-> [t \in Threads |-> NoEvent],
               log |-> <<>>, cancelled |-> FALSE, napi |-> 0]

\* a handler nothing calls
NoHandler == [NewHandler EXCEPT !.pc = [t \in Threads |-> "none"]]

\* TransitionTo, lines 77-111, by thread t: the part under the lock; then
\* the thread is at emit when the transition took effect, at refused else
Locked(h, t, l, emit, refused) ==
    IF l.err = "nil"
    THEN [h EXCEPT !.pc[t] = emit,
                   !.pend[t] = StateChange(l.from, l.to)]
    ELSE [h EXCEPT !.pc[t] = refused]

\* where a thread goes on after the event of its transition is emitted
AfterEmit == [emitStarting |-> "spawn", emitStopping |-> "cancel",
              emitFinal |-> "idle", emitRunning |-> "run",
              emitCrashed |-> "idle"]

\* ------------------------------------------ the waits of Agent.Run
\* The loop of Run with its waits only: pc is where Run is ("top", "next",
\* "send", "backoff", "poll", "done"), after what follows the pending
\* trySend, pending whether the batcher holds frames, cur backoff.current,
\* left the time until the timer of the wait in progress fires.  History:
\* hit says the context was cancelled while that timer had time left, late
\* names a wait that went on to its timer all the same
NewWaits == [pc |-> "top", after |-> "loop", cancelled |-> FALSE,
             pending |-> FALSE, cur |-> DefaultBackoffInitial, left |-> 0,
             hit |-> FALSE, late |-> "none"]

\* an agent loop nothing runs
NoWaits == [NewWaits EXCEPT !.pc = "none"]

\* where Run continues when trySend returns, in polling mode
AfterTrySend(w) == IF w.after = "loop" THEN "top"
                   ELSE IF w.after = "eof" THEN "poll" ELSE "done"

\* a wait of d begins
StartWait(w, kind, d) ==
    [w EXCEPT !.pc = kind, !.left = d, !.hit = w.cancelled /\ d > 0]

\* ------------------------------------------------------ walship.Walship
Plugins == 1..NumPlugins
\* the threads that call Start and Stop
Callers == {"t1", "t2"}
\* the run contexts: Start makes one each time it passes CanStart
Ctxs == 1..MaxApiCalls

CanStartAlsoRunning(s) == s \in {"Stopped", "Crashed", "Running"}

\* Lifecycle.CanStart
CanStart(s) == s \in {"Stopped", "Crashed"}

CanStopAlsoStopping(s) == s \in {"Running", "Starting", "Stopping"}

\* Lifecycle.CanStop
CanStop(s) == s \in {"Running", "Starting"}

\* the Lifecycle after one TransitionTo call
Transit(l, newState) ==
    LET t == TransitionTo(l.state, newState)
    IN [state |-> t.state, from |-> l.state, to |-> newState,
        err |-> t.err, emitted |-> t.emitted, calls |-> l.calls + 1,
        changes |-> l.changes + (IF t.emitted THEN 1 ELSE 0)]

\* a caller that is in neither Start nor Stop
NoCall == [op |-> "none", pc |-> "idle", i |-> 0, err |-> "", at |-> "",
           log |-> <<>>]

\* no call has returned yet
NoReturn == [op |-> "none", err |-> "", at |-> "", final |-> "",
             log |-> <<>>]

\* what the call that returned last handed back: the error, the lifecycle
\* state the call found and the one it left, and the plugin calls it made
Return(k, e, final) == [op |-> k.op, err |-> e, at |-> k.at,
                        final |-> final, log |-> k.log]

\* New: the facade with its plugins, no context, no worker; up holds the
\* plugins initialised and not shut down since, cleanupLoop the cleanup
\* goroutine started under each run context, cleanupCancel the context
\* cleanupRunner.cancel belongs to, cleanupDone the cleanup contexts
\* cancelled by cleanupRunner.stop
NewWalship(initErr, shutErr, cleanupOn) ==
    [initErr |-> initErr, shutErr |-> shutErr, cleanupOn |-> cleanupOn,
     mu |-> "", call |-> [c \in Callers |-> NoCall], last |-> NoReturn,
     nctx |-> 0, done |-> {}, worker |-> [k \in Ctxs |-> "none"],
     wg |-> 0, loops |-> 0, napi |-> 0, okStarts |-> 0, stops |-> FALSE,
     up |-> {}, cleanupLoop |-> [k \in Ctxs |-> "none"],
     cleanupCancel |-> 0, cleanupDone |-> {}]

\* which plugins return an error: none, or one of them
NoFault == [p \in Plugins |-> FALSE]
PluginFaults == {NoFault} \cup
                {[p \in Plugins |-> p = q] : q \in Plugins}

\* a facade no caller ever uses
IdleWalship == NewWalship(NoFault, NoFault, FALSE)

InitAgent ==
    /\ cursor = 0
    /\ idxOff = 0
    /\ batch = NewBatch
    /\ sinceSend = 0
    /\ st = EmptyState
    /\ disk = [exists |-> FALSE, state |-> EmptyState]
    /\ boCur = DefaultBackoffInitial
    /\ after = "loop"
    /\ shouldSend = FALSE
    /\ cancelled = FALSE
    /\ gateOK = TRUE
    /\ lastReq = NoReq
    /\ retry = FALSE
    /\ acked = {}
    /\ ackedRd = 0
    /\ sentRd = {}
    /\ owed = {}
    /\ events = <<>>
    /\ sleeps = 0
    /\ nread = 0
    /\ run = 1
    /\ ops = <<>>

InitMemory ==
    /\ InitAgent
    /\ ws = IdleWalship
    /\ wal = NoWal
    /\ sf = NoStateDir
    /\ bk = NoBackoff
    /\ wt = NoWaits
    /\ ev = NoHandler

InitRest ==
    /\ InitMemory
    /\ dir = OneIndexDir
    /\ curIdx = FirstIndex
    /\ ret = NoRet

Init ==
    /\ \E once \in BOOLEAN :
          cfg = [max |-> MaxBatchBytes, send |-> SendInterval,
                 hard |-> HardInterval, once |-> once]
    /\ idx \in Files
    /\ faults = BadLines(idx)
    /\ avail = FileLen
    /\ pc = "init"
    /\ InitRest
    /\ lc = NewLifecycle

\* Run, lines 81-95: load the state, open the reader, make the backoff
RunStart ==
    /\ pc = "init"
    /\ st' = Load
    /\ cursor' = IF Load.IdxPath = "" THEN 0 ELSE Load.IdxOffset
    /\ idxOff' = IF Load.IdxPath = "" THEN 0 ELSE Load.IdxOffset
    /\ boCur' = DefaultBackoffInitial
    /\ pc' = "loop"
    /\ UNCHANGED <<cfg, bk, wt, ev, ws, wal, sf, lc, avail, dir, curIdx, ret, idx, batch, sinceSend, disk, after, shouldSend,
                   cancelled, lastReq, retry, acked, ackedRd, sentRd, events,
                   sleeps, nread, run, faults, ops,
                   gateOK, owed>>

\* Run, lines 98-106: the context is done at the top of the loop
CancelExit ==
    /\ pc = "loop"
    /\ cancelled
    /\ IF HasPending(batch)
       THEN pc' = "flush" /\ after' = "cancel" /\ gateOK' \in BOOLEAN
       ELSE pc' = "done" /\ after' = after /\ gateOK' = gateOK
    /\ UNCHANGED <<cfg, bk, wt, ev, ws, wal, sf, lc, avail, dir, curIdx, ret, idx, cursor, idxOff, batch, sinceSend, st, disk,
                   boCur, shouldSend, cancelled, lastReq, retry, acked, ackedRd,
                   sentRd, events, sleeps, nread, run, faults, ops, owed>>

\* Run, lines 109 and 141-170: Next returns a frame; Add; flush decision
ReadFrame ==
    /\ pc = "loop"
    /\ ~cancelled
    /\ ReaderNext(cursor).kind = "frame"
    /\ LET r == ReaderNext(cursor)
           frame == [line |-> r.line, sz |-> idx[r.line].sz,
                     ll |-> idx[r.line].ll, rd |-> Stamp(run, nread + 1)]
           compressed == [line |-> r.line, n |-> idx[r.line].sz]
           a == BatcherAdd(batch, frame, compressed, r.len)
       IN /\ cursor' = r.cursor
          /\ idxOff' = idxOff + r.len
          /\ nread' = nread + 1
          /\ batch' = a.batch
          /\ shouldSend' = a.trigger
          /\ IF a.trigger \/ ShouldSend(a.batch, sinceSend)
             THEN \E ok \in BOOLEAN :
                    IF ~ShouldForceSend(a.batch, sinceSend) /\ ~ok
                    THEN pc' = "loop" /\ after' = after /\ gateOK' = gateOK
                    ELSE pc' = "flush" /\ after' = "loop" /\ gateOK' = ok
             ELSE pc' = "loop" /\ after' = after /\ gateOK' = gateOK
    /\ UNCHANGED <<cfg, bk, wt, ev, ws, wal, sf, lc, avail, dir, curIdx, ret, idx, sinceSend, st, disk, boCur, cancelled, lastReq, retry,
                   acked, ackedRd, sentRd, events, sleeps, run,
                   faults, ops, owed>>

\* Run, lines 118-129, after the end-of-data flush: return in one-shot mode,
\* else sleep poll_interval
AfterEOF == IF cfg.once THEN "done" ELSE "poll"

\* mutant: end of data goes to the return or the sleep without flushing
ReadEOFNoFlush ==
    /\ pc = "loop"
    /\ ~cancelled
    /\ ReaderNext(cursor).kind = "eof"
    /\ nextIndexAfter(curIdx) = NoIndex
    /\ pc' = AfterEOF
    /\ shouldSend' = FALSE
    /\ UNCHANGED <<cfg, bk, wt, ev, ws, wal, sf, lc, avail, dir, curIdx, ret, idx, cursor, idxOff, batch, sinceSend, st, disk,
                   boCur, after, cancelled, lastReq, retry, acked, ackedRd,
                   sentRd, events, sleeps, nread, run, faults, ops, gateOK, owed>>

\* Run, lines 109-120: Next returns io.EOF
ReadEOF ==
    /\ pc = "loop"
    /\ ~cancelled
    /\ ReaderNext(cursor).kind = "eof"
    /\ nextIndexAfter(curIdx) = NoIndex
    /\ IF HasPending(batch)
       THEN pc' = "flush" /\ after' = "eof" /\ gateOK' \in BOOLEAN
       ELSE pc' = AfterEOF /\ after' = after /\ gateOK' = gateOK
    /\ shouldSend' = FALSE
    /\ UNCHANGED <<cfg, bk, wt, ev, ws, wal, sf, lc, avail, dir, curIdx, ret, idx, cursor, idxOff, batch, sinceSend, st, disk,
                   boCur, cancelled, lastReq, retry, acked, ackedRd,
                   sentRd, events, sleeps, nread, run, faults, ops, owed>>

\* Run, lines 109 and 131-139: Next returns another error
ReadError ==
    /\ pc = "loop"
    /\ ~cancelled
    /\ ReaderNext(cursor).kind = "error"
    /\ cursor' = ReaderNext(cursor).cursor
    /\ pc' = "poll"
    /\ shouldSend' = FALSE
    /\ UNCHANGED <<cfg, bk, wt, ev, ws, wal, sf, lc, avail, dir, curIdx, ret, idx, idxOff, batch, sinceSend, st, disk, boCur,
                   after, cancelled, lastReq, retry, acked, ackedRd,
                   sentRd, events, sleeps, nread, run, faults, ops,
                   gateOK, owed>>

\* Run, lines 123-128 and 133-138: the select between ctx.Done and the timer
PollWake ==
    /\ pc = "poll"
    /\ \/ cancelled /\ pc' = "done" /\ sinceSend' = sinceSend
       \/ pc' = "loop" /\ sinceSend' = Later(sinceSend, PollInterval)
    /\ UNCHANGED <<cfg, bk, wt, ev, ws, wal, sf, lc, avail, dir, curIdx, ret, idx, cursor, idxOff, batch, st, disk, boCur, after,
                   shouldSend, cancelled, lastReq, retry, acked, ackedRd, sentRd,
                   events, sleeps, nread, run, faults, ops,
                   gateOK, owed>>

\* where Run continues when trySend returns
AfterSend == IF after = "loop" THEN "loop"
             ELSE IF after = "eof" THEN AfterEOF ELSE "done"

\* the Send call trySend makes with the current batch
Request(ok) == [frames |-> batchToFrameData(batch), ok |-> ok]

FrameRds(b) == {b.Frames[i].rd : i \in 1..Len(b.Frames)}
FrameLines(b) == {b.Frames[i].line : i \in 1..Len(b.Frames)}

\* trySend, lines 196-231: Send returns an error
TrySendFail ==
    /\ pc = "flush"
    /\ faults < MaxFaults
    /\ lastReq' = Request(FALSE)
    /\ retry' = (lastReq.frames # <<>> /\ ~lastReq.ok)
    /\ sentRd' = sentRd \cup FrameRds(batch)
    /\ owed' = owed \ FrameLines(batch)
    /\ events' = <<SendErrorEvent(batch)>>
    /\ sleeps' = 1
    /\ sinceSend' = Later(sinceSend, boCur)
    /\ boCur' = BackoffNext(boCur)
    /\ faults' = faults + 1
    /\ pc' = AfterSend
    /\ after' = "loop"
    /\ gateOK' = TRUE
    /\ shouldSend' = FALSE
    /\ UNCHANGED <<cfg, bk, wt, ev, ws, wal, sf, lc, avail, dir, curIdx, ret, idx, cursor, idxOff, batch, st, disk,
                   cancelled, acked, ackedRd, nread, run, ops>>

\* the State trySend commits: UpdateAfterSend, then the reader's position
CommitState ==
    [UpdateAfterSend(st, TotalIdxAdvance(batch), LastFrame(batch).line)
        EXCEPT !.IdxPath = IdxName, !.IdxOffset = idxOff]

\* trySend, lines 196-217 and 233-264: Send succeeds; Save may fail
TrySendOK ==
    /\ pc = "flush"
    /\ lastReq' = Request(TRUE)
    /\ retry' = (lastReq.frames # <<>> /\ ~lastReq.ok)
    /\ sentRd' = sentRd \cup FrameRds(batch)
    /\ owed' = owed \ FrameLines(batch)
    /\ acked' = acked \cup FrameLines(batch)
    /\ ackedRd' = SetMax(FrameRds(batch) \cup {ackedRd})
    /\ events' = <<SendSuccessEvent(batch)>>
    /\ sleeps' = 0
    /\ st' = CommitState
    /\ \/ disk' = [exists |-> TRUE, state |-> CommitState] /\ faults' = faults
       \/ faults < MaxFaults /\ disk' = disk /\ faults' = faults + 1
    /\ batch' = BatchReset(batch)
    /\ sinceSend' = 0
    /\ boCur' = DefaultBackoffInitial
    /\ pc' = AfterSend
    /\ after' = "loop"
    /\ gateOK' = TRUE
    /\ shouldSend' = FALSE
    /\ UNCHANGED <<cfg, bk, wt, ev, ws, wal, sf, lc, avail, dir, curIdx, ret, idx, cursor, idxOff, cancelled,
                   nread, run, ops>>

\* Stop, or the parent context, cancels the run context
Cancel ==
    /\ pc \in {"loop", "poll"}
    /\ ~cancelled
    /\ cancelled' = TRUE
    /\ UNCHANGED <<cfg, bk, wt, ev, ws, wal, sf, lc, avail, dir, curIdx, ret, idx, cursor, idxOff, batch, sinceSend, st, disk,
                   boCur, pc, after, shouldSend, lastReq, retry, acked, ackedRd,
                   sentRd, events, sleeps, nread, run, faults, ops,
                   gateOK, owed>>

\* time passes between two iterations of the loop
Tick ==
    /\ pc = "loop"
    /\ sinceSend < Saturation
    /\ sinceSend' = sinceSend + 1
    /\ UNCHANGED <<cfg, bk, wt, ev, ws, wal, sf, lc, avail, dir, curIdx, ret, idx, cursor, idxOff, batch, st, disk, boCur, pc,
                   after, shouldSend, cancelled, lastReq, retry, acked, ackedRd,
                   sentRd, events, sleeps, nread, run, faults, ops,
                   gateOK, owed>>

\* a new process: New builds a fresh agent, whose batcher is empty and whose
\* clock starts now; only status.json is carried over
Reboot ==
    /\ faults < MaxFaults
    /\ faults' = faults + 1
    /\ run' = run + 1
    /\ nread' = 0
    /\ lastReq' = NoReq
    /\ retry' = FALSE
    /\ sentRd' = {}
    /\ batch' = NewBatch
    /\ sinceSend' = 0
    /\ cancelled' = FALSE
    /\ gateOK' = TRUE
    /\ cursor' = 0
    /\ idxOff' = 0
    /\ st' = EmptyState
    /\ boCur' = DefaultBackoffInitial
    /\ after' = "loop"
    /\ shouldSend' = FALSE
    /\ events' = <<>>
    /\ sleeps' = 0
    /\ pc' = "init"
    /\ UNCHANGED <<cfg, bk, wt, ev, ws, wal, sf, lc, avail, dir, curIdx, ret, idx, disk, ops>>

\* the process ends (killed, or exited) and a new one is started
Restart ==
    /\ pc # "init"
    /\ Reboot
    /\ owed' = {}
    /\ UNCHANGED <<acked, ackedRd>>

\* trySend, lines 214-259: the process is killed after Send has returned
\* success and before Save has replaced status.json; a new one is started
KillAfterSend ==
    /\ pc = "flush"
    /\ Reboot
    /\ acked' = acked \cup FrameLines(batch)
    /\ ackedRd' = SetMax(FrameRds(batch) \cup {ackedRd})
    /\ owed' = FrameLines(batch)

Next ==
    \/ RunStart
    \/ CancelExit
    \/ ReadFrame
    \/ ReadEOF
    \/ ReadError
    \/ PollWake
    \/ TrySendFail
    \/ TrySendOK
    \/ Cancel
    \/ Tick
    \/ Restart
    \/ KillAfterSend

Spec == Init /\ [][Next]_vars

\* ------------------------------------------- the batcher on its own
\* every send_interval and hard_interval up to HardInterval, in both orders,
\* with and without a byte cap
BatcherConfigs == [max : {0, MaxBatchBytes}, send : 0..HardInterval,
                   hard : 0..HardInterval, once : {FALSE}]

BInit ==
    /\ cfg \in BatcherConfigs
    /\ idx = <<>>
    /\ avail = 0
    /\ faults = 0
    /\ pc = "batcher"
    /\ InitRest
    /\ lc = NewLifecycle

\* Batcher.Add with any frame
BAdd ==
    /\ pc = "batcher"
    /\ nread < MaxOps
    /\ \E z \in Sizes :
         LET frame == [line |-> nread + 1, sz |-> z, ll |-> LineOf(z, TRUE).ll,
                       rd |-> nread + 1]
             a == BatcherAdd(batch, frame, [line |-> nread + 1, n |-> z], frame.ll)
         IN /\ batch' = a.batch
            /\ shouldSend' = a.trigger
            /\ ops' = Append(ops, frame)
    /\ nread' = nread + 1
    /\ UNCHANGED <<cfg, bk, wt, ev, ws, wal, sf, lc, avail, dir, curIdx, ret, idx, cursor, idxOff, sinceSend, st, disk, boCur, pc,
                   after, cancelled, lastReq, retry, acked, ackedRd, sentRd,
                   events, sleeps, run, faults,
                   gateOK, owed>>

\* Batcher.Reset
BReset ==
    /\ pc = "batcher"
    /\ batch' = BatchReset(batch)
    /\ sinceSend' = 0
    /\ ops' = <<>>
    /\ UNCHANGED <<cfg, bk, wt, ev, ws, wal, sf, lc, avail, dir, curIdx, ret, idx, cursor, idxOff, st, disk, boCur, pc, after,
                   shouldSend, cancelled, lastReq, retry, acked, ackedRd,
                   sentRd, events, sleeps, nread, run, faults,
                   gateOK, owed>>

\* time passes
BTick ==
    /\ pc = "batcher"
    /\ sinceSend < Saturation
    /\ sinceSend' = sinceSend + 1
    /\ UNCHANGED <<cfg, bk, wt, ev, ws, wal, sf, lc, avail, dir, curIdx, ret, idx, cursor, idxOff, batch, st, disk, boCur, pc,
                   after, shouldSend, cancelled, lastReq, retry, acked,
                   ackedRd, sentRd, events, sleeps, nread, run, faults, ops,
                   gateOK, owed>>

BNext == BAdd \/ BReset \/ BTick

SpecBatcher == BInit /\ [][BNext]_vars

\* --------------------------------------------- the reader on its own
\* a line that parses and whose blob file is not there yet
BlobLine(sz) == [LineOf(sz, FALSE) EXCEPT !.json = TRUE]

ReaderLines == {LineOf(z, g) : z \in Sizes \ {1}, g \in BOOLEAN}
                  \cup {BlobLine(z) : z \in Sizes \ {1}}

ReaderFiles == {f \in [1..NumLines -> ReaderLines] :
                  Cardinality({i \in 1..NumLines : ~f[i].good}) <= 1}

\* NewIndexReader and Open on an empty first index
RInit ==
    /\ cfg = [max |-> MaxBatchBytes, send |-> SendInterval,
              hard |-> HardInterval, once |-> FALSE]
    /\ idx \in ReaderFiles
    /\ avail = 0
    /\ faults = 0
    /\ pc = "reader"
    /\ InitRest
    /\ lc = NewLifecycle

\* one call of IndexReader.Next
RNext ==
    /\ pc = "reader"
    /\ LET r == ReaderNext(cursor)
       IN /\ r.kind = "eof" => nextIndexAfter(curIdx) = NoIndex
          /\ cursor' = r.cursor
          /\ idxOff' = IF r.kind = "frame" THEN idxOff + r.len ELSE idxOff
          /\ ret' = [kind |-> r.kind, line |-> r.line]
    /\ UNCHANGED <<cfg, bk, wt, ev, ws, wal, sf, lc, idx, avail, dir, curIdx, batch, sinceSend, st, disk,
                   boCur, pc, after, shouldSend, cancelled, lastReq, retry,
                   acked, ackedRd, sentRd, events, sleeps, nread, run,
                   faults, ops, gateOK, owed>>

\* Close, then Open on a new reader with the triple of CurrentPosition()
RReplay ==
    /\ pc = "reader"
    /\ cursor' = idxOff
    /\ ret' = NoRet
    /\ UNCHANGED <<cfg, bk, wt, ev, ws, wal, sf, lc, idx, avail, dir, curIdx, idxOff, batch, sinceSend,
                   st, disk, boCur, pc, after, shouldSend, cancelled,
                   lastReq, retry, acked, ackedRd, sentRd, events, sleeps,
                   nread, run, faults, ops, gateOK, owed>>

\* the appender writes more bytes of the index, at most to the end of the
\* line it is writing
AppendBytes ==
    /\ pc = "reader"
    /\ avail < FileLen
    /\ \E n \in (avail + 1)..LineStart(LineAt(avail) + 1) : avail' = n
    /\ UNCHANGED <<cfg, bk, wt, ev, ws, wal, sf, lc, idx, dir, curIdx, ret, cursor, idxOff, batch,
                   sinceSend, st, disk, boCur, pc, after, shouldSend,
                   cancelled, lastReq, retry, acked, ackedRd, sentRd, events,
                   sleeps, nread, run, faults, ops, gateOK, owed>>

\* the appender creates the blob file an index line names
BlobAppears ==
    /\ pc = "reader"
    /\ \E i \in 1..Len(idx) :
         /\ idx[i].json
         /\ ~idx[i].good
         /\ idx' = [idx EXCEPT ![i].good = TRUE]
    /\ UNCHANGED <<cfg, bk, wt, ev, ws, wal, sf, lc, avail, dir, curIdx, ret, cursor, idxOff, batch,
                   sinceSend, st, disk, boCur, pc, after, shouldSend,
                   cancelled, lastReq, retry, acked, ackedRd, sentRd, events,
                   sleeps, nread, run, faults, ops, gateOK, owed>>

RStep == RNext \/ RReplay \/ AppendBytes \/ BlobAppears

SpecReader == RInit /\ [][RStep]_vars

\* ----------------------------------------- the rotation on its own
AllIndexes == [day : 1..MaxDay, seg : 1..MaxSeg]

\* day directories, each with any of its indexes; the reader is on one
RotateDirs == {d \in [days : SUBSET (1..MaxDay), files : SUBSET AllIndexes] :
                 \A f \in d.files : f.day \in d.days}

RotInit ==
    /\ cfg = [max |-> MaxBatchBytes, send |-> SendInterval,
              hard |-> HardInterval, once |-> FALSE]
    /\ idx = <<>>
    /\ avail = 0
    /\ faults = 0
    /\ pc = "rotate"
    /\ InitMemory
    /\ dir \in RotateDirs
    /\ curIdx \in dir.files
    /\ ret = NoRet
    /\ lc = NewLifecycle

\* Next at the end of the current index, a newer index exists:
\* advanceToIndex, then the read is tried again
RAdvance ==
    /\ pc = "rotate"
    /\ nextIndexAfter(curIdx) # NoIndex
    /\ curIdx' = nextIndexAfter(curIdx)
    /\ idxOff' = 0
    /\ cursor' = 0
    /\ ret' = [kind |-> "index", line |-> 0]
    /\ UNCHANGED <<cfg, bk, wt, ev, ws, wal, sf, lc, idx, avail, dir, batch, sinceSend, st, disk,
                   boCur, pc, after, shouldSend, cancelled, lastReq, retry,
                   acked, ackedRd, sentRd, events, sleeps, nread, run,
                   faults, ops, gateOK, owed>>

\* Next at the end of the current index, no newer index: io.EOF
REndOfData ==
    /\ pc = "rotate"
    /\ nextIndexAfter(curIdx) = NoIndex
    /\ ret' = [kind |-> "eof", line |-> 0]
    /\ UNCHANGED <<cfg, bk, wt, ev, ws, wal, sf, lc, idx, avail, dir, curIdx, cursor, idxOff, batch,
                   sinceSend, st, disk, boCur, pc, after, shouldSend,
                   cancelled, lastReq, retry, acked, ackedRd, sentRd, events,
                   sleeps, nread, run, faults, ops, gateOK, owed>>

\* the appender creates a day directory or an index file
NewIndex ==
    /\ pc = "rotate"
    /\ \/ \E d \in (1..MaxDay) \ dir.days :
            dir' = [dir EXCEPT !.days = @ \cup {d}]
       \/ \E f \in AllIndexes \ dir.files :
            dir' = [days |-> dir.days \cup {f.day},
                    files |-> dir.files \cup {f}]
    /\ UNCHANGED <<cfg, bk, wt, ev, ws, wal, sf, lc, idx, avail, curIdx, ret, cursor, idxOff, batch,
                   sinceSend, st, disk, boCur, pc, after, shouldSend,
                   cancelled, lastReq, retry, acked, ackedRd, sentRd, events,
                   sleeps, nread, run, faults, ops, gateOK, owed>>

RotStep == RAdvance \/ REndOfData \/ NewIndex

SpecRotate == RotInit /\ [][RotStep]_vars

\* --------------------------------------- the lifecycle on its own
LInit ==
    /\ cfg = [max |-> MaxBatchBytes, send |-> SendInterval,
              hard |-> HardInterval, once |-> FALSE]
    /\ idx = <<>>
    /\ avail = 0
    /\ faults = 0
    /\ pc = "lifecycle"
    /\ InitRest
    /\ \E s \in States : lc = [NewLifecycle EXCEPT !.state = s, !.from = s]

\* one call of TransitionTo with any target state
LTransition ==
    /\ pc = "lifecycle"
    /\ lc.calls < MaxCalls
    /\ \E newState \in States :
         LET t == TransitionTo(lc.state, newState)
         IN lc' = [state |-> t.state, from |-> lc.state, to |-> newState,
                   err |-> t.err, emitted |-> t.emitted,
                   calls |-> lc.calls + 1,
                   changes |-> lc.changes + (IF t.emitted THEN 1 ELSE 0)]
    /\ UNCHANGED <<cfg, bk, wt, ev, ws, wal, sf, idx, avail, dir, curIdx, ret, cursor, idxOff, batch,
                   sinceSend, st, disk, boCur, pc, after, shouldSend,
                   cancelled, lastReq, retry, acked, ackedRd, sentRd, events,
                   sleeps, nread, run, faults, ops, gateOK, owed>>

SpecLifecycle == LInit /\ [][LTransition]_vars

\* ---------------------------------------- the facade on its own
WInit ==
    /\ cfg = [max |-> MaxBatchBytes, send |-> SendInterval,
              hard |-> HardInterval, once |-> FALSE]
    /\ idx = <<>>
    /\ avail = 0
    /\ faults = 0
    /\ pc = "facade"
    /\ InitAgent
    /\ dir = OneIndexDir
    /\ curIdx = FirstIndex
    /\ ret = NoRet
    /\ lc = NewLifecycle
    /\ \E initErr \in PluginFaults, shutErr \in PluginFaults :
          /\ NoFault \in {initErr, shutErr}
          /\ ws = NewWalship(initErr, shutErr, TRUE)
    /\ wal = NoWal
    /\ sf = NoStateDir
    /\ bk = NoBackoff
    /\ wt = NoWaits
    /\ ev = NoHandler

\* a caller may enter Start or Stop: it is in no call, the facade's mutex
\* is free
MayCall(c) ==
    /\ pc = "facade"
    /\ ws.call[c].op = "none"
    /\ ws.napi < MaxApiCalls
    /\ ws.mu = ""

\* Start, lines 148-153: CanStart says no
StartRejected(c) ==
    /\ MayCall(c)
    /\ ~CanStart(lc.state)
    /\ ws' = [ws EXCEPT !.napi = @ + 1,
                        !.last = [op |-> "Start",
                                     err |-> "ErrAlreadyRunning",
                                     at |-> lc.state, final |-> lc.state,
                                     log |-> <<>>]]
    /\ UNCHANGED <<agentVars, bk, wt, ev, lc, wal, sf>>

\* Start, lines 148-164: CanStart says yes, TransitionTo(Starting), a new
\* cancellable context
StartEnter(c) ==
    /\ MayCall(c)
    /\ CanStart(lc.state)
    /\ lc' = Transit(lc, "Starting")
    /\ LET k == [NoCall EXCEPT !.op = "Start", !.at = lc.state]
       IN IF lc'.err # "nil"
          THEN ws' = [ws EXCEPT !.napi = @ + 1,
                                !.last = Return(k, lc'.err, lc'.state)]
          ELSE ws' = [ws EXCEPT !.napi = @ + 1, !.mu = c, !.nctx = @ + 1,
                                !.call[c] = [k EXCEPT !.pc = "init",
                                                      !.i = 1]]
    /\ UNCHANGED <<agentVars, bk, wt, ev, wal, sf>>

\* Start, lines 177-187, one turn of the loop, which goes on after a
\* failed Initialize
StartInitGoesOn(c) ==
    /\ pc = "facade"
    /\ ws.call[c].op = "Start"
    /\ ws.call[c].pc = "init"
    /\ ws.call[c].i <= NumPlugins
    /\ ws' = [ws EXCEPT !.call[c].log = Append(@, ws.call[c].i),
                        !.call[c].i = @ + 1,
                        !.up = IF ws.initErr[ws.call[c].i] THEN @
                               ELSE @ \cup {ws.call[c].i}]
    /\ UNCHANGED <<agentVars, bk, wt, ev, lc, wal, sf>>

\* Start, lines 177-187, one turn of the loop: Initialize of the next
\* plugin; a failure cancels the context, moves to Crashed and returns
StartInit(c) ==
    /\ pc = "facade"
    /\ ws.call[c].op = "Start"
    /\ ws.call[c].pc = "init"
    /\ ws.call[c].i <= NumPlugins
    /\ LET p == ws.call[c].i
           k == [ws.call[c] EXCEPT !.log = Append(@, p)]
       IN IF ws.initErr[p]
          THEN /\ lc' = Transit(lc, "Crashed")
               /\ ws' = [ws EXCEPT !.done = @ \cup {ws.nctx},
                                   !.mu = "",
                                   !.call[c] = NoCall,
                                   !.last = Return(k, "init failed",
                                                      lc'.state)]
          ELSE /\ lc' = lc
               /\ ws' = [ws EXCEPT !.call[c] = [k EXCEPT !.i = @ + 1],
                                   !.up = @ \cup {p}]
    /\ UNCHANGED <<agentVars, bk, wt, ev, wal, sf>>

\* Start, lines 189-220: the cleanup loop if configured (cleanupRunner.start
\* derives its context from the run context, overwrites cancel and starts
\* the goroutine), AddWorker, the agent goroutine, return nil
StartSpawn(c) ==
    /\ pc = "facade"
    /\ ws.call[c].op = "Start"
    /\ ws.call[c].pc = "init"
    /\ ws.call[c].i > NumPlugins
    /\ ws' = [ws EXCEPT !.loops = @ + (IF ws.cleanupOn THEN 1 ELSE 0),
                        !.cleanupLoop[ws.nctx] =
                            IF ws.cleanupOn THEN "running" ELSE @,
                        !.cleanupCancel =
                            IF ws.cleanupOn THEN ws.nctx ELSE @,
                        !.wg = @ + 1,
                        !.worker[ws.nctx] = "spawned",
                        !.okStarts = @ + 1,
                        !.mu = "",
                        !.call[c] = NoCall,
                        !.last = Return(ws.call[c], "nil", lc.state)]
    /\ UNCHANGED <<agentVars, bk, wt, ev, lc, wal, sf>>

\* the agent goroutine, lines 204-208: TransitionTo(Running), and out if
\* that is refused
WorkerRunning(k) ==
    /\ pc = "facade"
    /\ ws.worker[k] = "spawned"
    /\ lc' = Transit(lc, "Running")
    /\ ws' = [ws EXCEPT !.worker[k] = IF lc'.err = "nil" THEN "running"
                                      ELSE "exiting"]
    /\ UNCHANGED <<agentVars, bk, wt, ev, wal, sf>>

\* the agent goroutine, lines 211-217: Agent.Run returns nil (once mode),
\* context.Canceled (the context is cancelled) or another error, and only
\* the last moves the lifecycle to Crashed
WorkerReturn(k) ==
    /\ pc = "facade"
    /\ ws.worker[k] = "running"
    /\ \E err \in {"nil", "error"} \cup
                  (IF k \in ws.done THEN {"Canceled"} ELSE {}) :
          lc' = IF err = "error" THEN Transit(lc, "Crashed") ELSE lc
    /\ ws' = [ws EXCEPT !.worker[k] = "exiting"]
    /\ UNCHANGED <<agentVars, bk, wt, ev, wal, sf>>

\* the agent goroutine, line 202: the deferred WorkerDone
WorkerDone(k) ==
    /\ pc = "facade"
    /\ ws.worker[k] = "exiting"
    /\ ws' = [ws EXCEPT !.worker[k] = "done", !.wg = @ - 1]
    /\ UNCHANGED <<agentVars, bk, wt, ev, lc, wal, sf>>

\* Stop, lines 228-233: CanStop says no
StopRejected(c) ==
    /\ MayCall(c)
    /\ ~CanStop(lc.state)
    /\ ws' = [ws EXCEPT !.napi = @ + 1, !.stops = TRUE,
                        !.last = [op |-> "Stop", err |-> "ErrNotRunning",
                                     at |-> lc.state, final |-> lc.state,
                                     log |-> <<>>]]
    /\ UNCHANGED <<agentVars, bk, wt, ev, lc, wal, sf>>

\* Stop, lines 228-230: CanStop says yes
StopEnter(c) ==
    /\ MayCall(c)
    /\ CanStop(lc.state)
    /\ ws' = [ws EXCEPT !.napi = @ + 1, !.stops = TRUE, !.mu = c,
                        !.call[c] = [NoCall EXCEPT !.op = "Stop",
                                                   !.pc = "transition",
                                                   !.at = lc.state]]
    /\ UNCHANGED <<agentVars, bk, wt, ev, lc, wal, sf>>

\* Stop, lines 236-246: TransitionTo(Stopping); refused, Stop returns the
\* error; accepted, Stop cancels the context
StopTransition(c) ==
    /\ pc = "facade"
    /\ ws.call[c].op = "Stop"
    /\ ws.call[c].pc = "transition"
    /\ lc' = Transit(lc, "Stopping")
    /\ IF lc'.err # "nil"
       THEN ws' = [ws EXCEPT !.mu = "", !.call[c] = NoCall,
                             !.last = Return(ws.call[c], lc'.err,
                                                lc'.state)]
       ELSE ws' = [ws EXCEPT !.mu = "",
                             !.done = @ \cup {ws.nctx},
                             !.call[c].pc = "wait"]
    /\ UNCHANGED <<agentVars, bk, wt, ev, wal, sf>>

\* the cleanup goroutines that have not returned
LiveCleanupLoops == {k \in Ctxs : ws.cleanupLoop[k] = "running"}

\* cleanupLoop: the goroutine returns once its context is done, which is
\* when the run context it derives from or the context itself is cancelled
CleanupLoopExit(k) ==
    /\ pc = "facade"
    /\ ws.cleanupLoop[k] = "running"
    /\ k \in ws.done \cup ws.cleanupDone
    /\ ws' = [ws EXCEPT !.cleanupLoop[k] = "exited"]
    /\ UNCHANGED <<agentVars, bk, wt, ev, lc, wal, sf>>

\* Stop, lines 249-253: WaitWithTimeout returns nil once every worker is
\* done, ErrShutdownTimeout while one is not; cleanupRunner.stop then
\* cancels the context of the latest cleanupRunner.start
StopWait(c) ==
    /\ pc = "facade"
    /\ ws.call[c].op = "Stop"
    /\ ws.call[c].pc = "wait"
    /\ ws' = [ws EXCEPT !.call[c].pc = "cleanup",
                        !.cleanupDone =
                            IF ws.cleanupOn /\ ws.cleanupCancel # 0
                            THEN @ \cup {ws.cleanupCancel} ELSE @,
                        !.call[c].err = IF ws.wg = 0 THEN "nil"
                                        ELSE "ErrShutdownTimeout"]
    /\ UNCHANGED <<agentVars, bk, wt, ev, lc, wal, sf>>

\* Stop, lines 252-254: cleanupRunner.stop returns from wg.Wait once every
\* cleanup goroutine ever started has returned
StopCleanup(c) ==
    /\ pc = "facade"
    /\ ws.call[c].op = "Stop"
    /\ ws.call[c].pc = "cleanup"
    /\ ws.cleanupOn => LiveCleanupLoops = {}
    /\ ws' = [ws EXCEPT !.call[c].pc = "shutdown",
                        !.call[c].i = NumPlugins]
    /\ UNCHANGED <<agentVars, bk, wt, ev, lc, wal, sf>>

\* Stop, lines 258-267, one turn of the loop, which ends at the first
\* Shutdown that fails
StopShutdownEndsAtError(c) ==
    /\ pc = "facade"
    /\ ws.call[c].op = "Stop"
    /\ ws.call[c].pc = "shutdown"
    /\ ws.call[c].i >= 1
    /\ ws' = [ws EXCEPT !.call[c].log = Append(@, ws.call[c].i),
                        !.up = @ \ {ws.call[c].i},
                        !.call[c].i = IF ws.shutErr[ws.call[c].i] THEN 0
                                      ELSE @ - 1]
    /\ UNCHANGED <<agentVars, bk, wt, ev, lc, wal, sf>>

\* Stop, lines 258-267, one turn of the loop: Shutdown of the next plugin,
\* last registered first; an error is logged and the loop goes on
StopShutdown(c) ==
    /\ pc = "facade"
    /\ ws.call[c].op = "Stop"
    /\ ws.call[c].pc = "shutdown"
    /\ ws.call[c].i >= 1
    /\ ws' = [ws EXCEPT !.call[c].log = Append(@, ws.call[c].i),
                        !.up = @ \ {ws.call[c].i},
                        !.call[c].i = @ - 1]
    /\ UNCHANGED <<agentVars, bk, wt, ev, lc, wal, sf>>

\* Stop, lines 270-276: TransitionTo(Crashed) after a timeout, else
\* TransitionTo(Stopped), the result ignored; Stop returns the wait's error
StopFinish(c) ==
    /\ pc = "facade"
    /\ ws.call[c].op = "Stop"
    /\ ws.call[c].pc = "shutdown"
    /\ ws.call[c].i = 0
    /\ lc' = Transit(lc, IF ws.call[c].err # "nil" THEN "Crashed"
                         ELSE "Stopped")
    /\ ws' = [ws EXCEPT !.call[c] = NoCall,
                        !.last = Return(ws.call[c], ws.call[c].err,
                                           lc'.state)]
    /\ UNCHANGED <<agentVars, bk, wt, ev, wal, sf>>

WStep ==
    \/ \E c \in Callers : StartRejected(c)
    \/ \E c \in Callers : StartEnter(c)
    \/ \E c \in Callers : StartInit(c)
    \/ \E c \in Callers : StartSpawn(c)
    \/ \E k \in Ctxs : WorkerRunning(k)
    \/ \E k \in Ctxs : WorkerReturn(k)
    \/ \E k \in Ctxs : WorkerDone(k)
    \/ \E c \in Callers : StopRejected(c)
    \/ \E c \in Callers : StopEnter(c)
    \/ \E c \in Callers : StopTransition(c)
    \/ \E c \in Callers : StopWait(c)
    \/ \E c \in Callers : StopCleanup(c)
    \/ \E k \in Ctxs : CleanupLoopExit(k)
    \/ \E c \in Callers : StopShutdown(c)
    \/ \E c \in Callers : StopFinish(c)

SpecWalship == WInit /\ [][WStep]_vars

\* ------------------------------- the cleanup runner beside the agent
\* WAL directories: each directory holds the segments 1..n
CleanDirs ==
    {g \in SUBSET Segments :
        \A k \in g : k.seg > 1 => [k EXCEPT !.seg = @ - 1] \in g}

CInit ==
    /\ cfg = [max |-> MaxBatchBytes, send |-> SendInterval,
              hard |-> HardInterval, once |-> FALSE]
    /\ idx = <<>>
    /\ avail = 0
    /\ faults = 0
    /\ pc = "cleanup"
    /\ InitAgent
    /\ ret = NoRet
    /\ lc = NewLifecycle
    /\ ws = IdleWalship
    /\ sf = NoStateDir
    /\ bk = NoBackoff
    /\ wt = NoWaits
    /\ ev = NoHandler
    \* the first segment of the first day directory may have lost its index
    /\ \E g \in CleanDirs, bare \in BOOLEAN, low \in 1..MaxMark :
          /\ dir = [days |-> {k.day : k \in g} \ {RootDay},
                    files |-> IF bare THEN g \ {[day |-> 1, seg |-> 1]}
                              ELSE g]
          /\ \E status \in dir.files \cup {NoIndex} :
                /\ wal = NewCleanup(g, status, low + 1, low)
                /\ curIdx = IF status = NoIndex THEN oldestIndex(dir)
                            ELSE status
          /\ curIdx # NoIndex

\* cleanupOnce, lines 153-180: the size of the WAL root; above the high
\* watermark, the active day from status.json and the candidate segments
CleanupScan ==
    /\ pc = "cleanup"
    /\ wal.cpc = "idle"
    /\ LET size == walDirSize(wal.gz, dir.files)
           segs == orderedSegments(wal.gz, dir.files, dir.days,
                                   currentActiveDay(wal.status))
       IN IF size <= wal.high
          THEN wal' = [wal EXCEPT !.cpc = "done", !.curSize = size,
                                  !.startSize = size, !.seen = NoIndex,
                                  !.segs = <<>>, !.scanGz = wal.gz,
                                  !.scanIdx = dir.files, !.removed = <<>>]
          ELSE wal' = [wal EXCEPT !.cpc = IF segs = <<>> THEN "done"
                                          ELSE "remove",
                                  !.curSize = size, !.startSize = size,
                                  !.seen = wal.status, !.segs = segs,
                                  !.scanGz = wal.gz, !.scanIdx = dir.files,
                                  !.removed = <<>>]
    /\ UNCHANGED <<agentVars, bk, wt, ev, lc, ws, sf>>

\* cleanupOnce, lines 182-196, one turn of the loop: the next candidate is
\* removed, its .wal.gz and its .wal.idx
CleanupRemove ==
    /\ pc = "cleanup"
    /\ wal.cpc = "remove"
    /\ wal.segs # <<>>
    /\ wal.curSize > wal.low
    /\ LET seg == Head(wal.segs)
       IN /\ wal' = [wal EXCEPT !.gz = @ \ {seg.key},
                                !.curSize = @ - bytesFreed(seg),
                                !.segs = Tail(@),
                                !.removed = Append(@, seg.key)]
          /\ dir' = [dir EXCEPT !.files = @ \ {seg.key}]
    /\ UNCHANGED <<cfg, bk, wt, ev, idx, cursor, idxOff, batch, sinceSend, st, disk,
                   boCur, pc, after, shouldSend, cancelled, lastReq, retry,
                   acked, ackedRd, sentRd, events, sleeps, nread, run,
                   faults, ops, gateOK, owed, avail, curIdx, ret, lc, ws,
                   sf>>

\* cleanupOnce, lines 182-200: the loop ends at the low watermark or at the
\* end of the list
CleanupEnd ==
    /\ pc = "cleanup"
    /\ wal.cpc = "remove"
    /\ wal.segs = <<>> \/ wal.curSize <= wal.low
    /\ wal' = [wal EXCEPT !.cpc = "done"]
    /\ UNCHANGED <<agentVars, bk, wt, ev, lc, ws, sf>>

\* cleanupLoop, lines 143-150: the ticker starts the next pass
CleanupTick ==
    /\ pc = "cleanup"
    /\ wal.cpc = "done"
    /\ wal' = [wal EXCEPT !.cpc = "idle"]
    /\ UNCHANGED <<agentVars, bk, wt, ev, lc, ws, sf>>

\* the agent commits a batch: status.json gets the reader's index path
AgentSave ==
    /\ pc = "cleanup"
    /\ wal.status # curIdx
    /\ wal' = [wal EXCEPT !.status = curIdx]
    /\ UNCHANGED <<agentVars, bk, wt, ev, lc, ws, sf>>

\* the agent's reader goes on to the next index file; from the WAL root it
\* finds the next segment of the root only
AgentRotate ==
    /\ pc = "cleanup"
    /\ LET next == nextIndexAfter(curIdx)
       IN /\ next # NoIndex
          /\ curIdx.day = RootDay => next.day = RootDay
          /\ curIdx' = next
    /\ UNCHANGED <<cfg, bk, wt, ev, idx, cursor, idxOff, batch, sinceSend, st, disk,
                   boCur, pc, after, shouldSend, cancelled, lastReq, retry,
                   acked, ackedRd, sentRd, events, sleeps, nread, run,
                   faults, ops, gateOK, owed, avail, dir, ret, lc, ws, wal,
                   sf>>

CStep == CleanupScan \/ CleanupRemove \/ CleanupEnd \/ CleanupTick
            \/ AgentSave \/ AgentRotate

SpecCleanup == CInit /\ [][CStep]_vars

\* ----------------------------- Save beside a reader of status.json
SInit ==
    /\ cfg = [max |-> MaxBatchBytes, send |-> SendInterval,
              hard |-> HardInterval, once |-> FALSE]
    /\ idx = <<>>
    /\ avail = 0
    /\ faults = 0
    /\ pc = "save"
    /\ InitAgent
    /\ dir = OneIndexDir
    /\ curIdx = FirstIndex
    /\ ret = NoRet
    /\ lc = NewLifecycle
    /\ ws = IdleWalship
    /\ wal = NoWal
    /\ sf = NoStateDir
    /\ bk = NoBackoff
    /\ wt = NoWaits
    /\ ev = NoHandler

\* Save that writes status.json itself: the file is opened and truncated
SaveOpenInPlace ==
    /\ pc = "save"
    /\ sf.spc = "idle"
    /\ sf.ver < MaxSaves
    /\ LET f == IF sf.json # NoInode THEN sf.json ELSE FreeInode(sf)
       IN sf' = [sf EXCEPT !.ver = @ + 1, !.spc = "opened", !.wfd = f,
                           !.json = f, !.ino[f] = <<>>]
    /\ UNCHANGED <<agentVars, bk, wt, ev, lc, ws, wal>>

\* Save, line 62, os.WriteFile opens status.json.tmp: a leftover file is
\* truncated, else a new one is created
SaveOpen ==
    /\ pc = "save"
    /\ sf.spc = "idle"
    /\ sf.ver < MaxSaves
    /\ LET f == IF sf.tmp # NoInode THEN sf.tmp ELSE FreeInode(sf)
       IN sf' = [sf EXCEPT !.ver = @ + 1, !.spc = "opened", !.wfd = f,
                           !.tmp = f, !.ino[f] = <<>>]
    /\ UNCHANGED <<agentVars, bk, wt, ev, lc, ws, wal>>

\* Save, line 62, os.WriteFile writes the text, a piece at a time, and
\* closes the file
SaveWrite ==
    /\ pc = "save"
    /\ sf.spc = "opened"
    /\ LET text == Append(sf.ino[sf.wfd], sf.ver)
       IN sf' = [sf EXCEPT !.ino[sf.wfd] = text,
                           !.spc = IF text = Full(sf.ver) THEN "written"
                                   ELSE "opened",
                           !.wfd = IF text = Full(sf.ver) THEN NoInode
                                   ELSE @]
    /\ UNCHANGED <<agentVars, bk, wt, ev, lc, ws, wal>>

\* Save, line 67, os.Rename: status.json names the inode of
\* status.json.tmp from now on; without a status.json.tmp it fails
SaveRename ==
    /\ pc = "save"
    /\ sf.spc = "written"
    /\ IF sf.tmp = NoInode
       THEN sf' = [sf EXCEPT !.spc = "idle"]
       ELSE sf' = [sf EXCEPT !.spc = "idle", !.json = sf.tmp,
                             !.tmp = NoInode, !.committed = sf.ver,
                             !.ino = [i \in Inodes |->
                                        IF i = sf.json /\ i # sf.rfd
                                        THEN <<>> ELSE sf.ino[i]]]
    /\ UNCHANGED <<agentVars, bk, wt, ev, lc, ws, wal>>

\* the process dies inside Save: what is on disk stays
SaveCrash ==
    /\ pc = "save"
    /\ sf.spc # "idle"
    /\ sf' = [sf EXCEPT !.spc = "idle", !.wfd = NoInode]
    /\ UNCHANGED <<agentVars, bk, wt, ev, lc, ws, wal>>

\* loadState, line 224, os.ReadFile opens status.json
ReadOpen ==
    /\ pc = "save"
    /\ sf.rpc # "reading"
    /\ IF sf.json = NoInode
       THEN sf' = [sf EXCEPT !.rpc = "absent", !.rlo = sf.committed,
                             !.got = <<>>, !.res = <<>>]
       ELSE sf' = [sf EXCEPT !.rpc = "reading", !.rfd = sf.json,
                             !.rlo = sf.committed, !.got = <<>>,
                             !.res = <<>>]
    /\ UNCHANGED <<agentVars, bk, wt, ev, lc, ws, wal>>

\* loadState, line 224, os.ReadFile reads the next piece, or meets the end
\* of the file and returns what it has
ReadPiece ==
    /\ pc = "save"
    /\ sf.rpc = "reading"
    /\ LET text == sf.ino[sf.rfd]
           unnamed == sf.rfd \notin {sf.json, sf.tmp, sf.wfd}
       IN IF Len(sf.got) < Len(text)
          THEN sf' = [sf EXCEPT !.got = Append(@, text[Len(sf.got) + 1])]
          ELSE sf' = [sf EXCEPT !.rpc = "read", !.res = sf.got,
                                !.got = <<>>, !.rfd = NoInode,
                                !.ino[sf.rfd] = IF unnamed THEN <<>>
                                                ELSE @]
    /\ UNCHANGED <<agentVars, bk, wt, ev, lc, ws, wal>>

SStep == SaveOpen \/ SaveWrite \/ SaveRename \/ SaveCrash
            \/ ReadOpen \/ ReadPiece

SpecSave == SInit /\ [][SStep]_vars

\* ---------------------------------------- the backoff on its own
\* every backoff with initial <= max, of the durations DurBits bits hold
BkInit ==
    /\ cfg = [max |-> MaxBatchBytes, send |-> SendInterval,
              hard |-> HardInterval, once |-> FALSE]
    /\ idx = <<>>
    /\ avail = 0
    /\ faults = 0
    /\ pc = "backoff"
    /\ InitAgent
    /\ dir = OneIndexDir
    /\ curIdx = FirstIndex
    /\ ret = NoRet
    /\ lc = NewLifecycle
    /\ ws = IdleWalship
    /\ wal = NoWal
    /\ sf = NoStateDir
    /\ \E initial \in MinDuration..MaxDuration,
          max \in MinDuration..MaxDuration :
          /\ initial <= max
          /\ bk = NewBackoff(initial, max)
    /\ wt = NoWaits
    /\ ev = NoHandler

\* Backoff.Sleep
BackoffSleep ==
    /\ pc = "backoff"
    /\ bk.k < MaxSleeps
    /\ \E d \in SleepDurations(bk.current) :
          bk' = [bk EXCEPT !.slept = d, !.current = Doubled(bk),
                           !.k = @ + 1, !.last = "sleep"]
    /\ UNCHANGED <<agentVars, wt, ev, lc, ws, wal, sf>>

\* Backoff.Reset
BackoffReset ==
    /\ pc = "backoff"
    /\ bk.last # "reset"
    /\ bk' = [bk EXCEPT !.current = bk.initial, !.k = 0, !.last = "reset"]
    /\ UNCHANGED <<agentVars, wt, ev, lc, ws, wal, sf>>

BkStep == BackoffSleep \/ BackoffReset

SpecBackoff == BkInit /\ [][BkStep]_vars

\* ------------------------------------ the waits of the agent loop
WtInit ==
    /\ cfg = [max |-> MaxBatchBytes, send |-> SendInterval,
              hard |-> HardInterval, once |-> FALSE]
    /\ idx = <<>>
    /\ avail = 0
    /\ faults = 0
    /\ pc = "waits"
    /\ InitAgent
    /\ dir = OneIndexDir
    /\ curIdx = FirstIndex
    /\ ret = NoRet
    /\ lc = NewLifecycle
    /\ ws = IdleWalship
    /\ wal = NoWal
    /\ sf = NoStateDir
    /\ bk = NoBackoff
    /\ wt = NewWaits
    /\ ev = NoHandler

\* Run, lines 98-106: the select on ctx.Done at the top of the loop
LoopTop ==
    /\ pc = "waits"
    /\ wt.pc = "top"
    /\ wt' = IF ~wt.cancelled THEN [wt EXCEPT !.pc = "next"]
             ELSE IF wt.pending
                  THEN [wt EXCEPT !.pc = "send", !.after = "cancel"]
                  ELSE [wt EXCEPT !.pc = "done"]
    /\ UNCHANGED <<agentVars, bk, ev, lc, ws, wal, sf>>

\* Run, lines 109-170: Reader.Next returns ctx.Err() when the context is
\* done, else a frame, io.EOF or another error; a frame is added and the
\* batch flushed or not
LoopNext ==
    /\ pc = "waits"
    /\ wt.pc = "next"
    /\ IF wt.cancelled
       THEN wt' = StartWait(wt, "poll", PollInterval)
       ELSE \E r \in {"frame", "eof", "error"}, flush \in BOOLEAN :
              wt' = IF r = "frame"
                    THEN [wt EXCEPT !.pending = TRUE,
                                    !.pc = IF flush THEN "send" ELSE "top",
                                    !.after = "loop"]
                    ELSE IF r = "eof" /\ wt.pending
                    THEN [wt EXCEPT !.pc = "send", !.after = "eof"]
                    ELSE StartWait(wt, "poll", PollInterval)
    /\ UNCHANGED <<agentVars, bk, ev, lc, ws, wal, sf>>

\* trySend, lines 214-231: Send fails and Backoff.Sleep calls time.Sleep
SendFails ==
    /\ pc = "waits"
    /\ wt.pc = "send"
    /\ \E d \in SleepDurations(wt.cur) : wt' = StartWait(wt, "backoff", d)
    /\ UNCHANGED <<agentVars, bk, ev, lc, ws, wal, sf>>

\* trySend, lines 214-264: Send succeeds; the batcher and the backoff are
\* reset
SendSucceeds ==
    /\ pc = "waits"
    /\ wt.pc = "send"
    /\ wt' = [wt EXCEPT !.pending = FALSE, !.cur = DefaultBackoffInitial,
                        !.pc = AfterTrySend(wt), !.after = "loop"]
    /\ UNCHANGED <<agentVars, bk, ev, lc, ws, wal, sf>>

\* time passes while Run waits; a poll select the cancellation has woken
\* does not wait any more
TimePasses ==
    /\ pc = "waits"
    /\ wt.pc \in {"poll", "backoff"}
    /\ wt.left > 0
    /\ ~(wt.pc = "poll" /\ wt.hit)
    /\ wt' = [wt EXCEPT !.left = @ - 1]
    /\ UNCHANGED <<agentVars, bk, ev, lc, ws, wal, sf>>

\* Backoff.Sleep, lines 36-42: time.Sleep returns when its timer fires, and
\* trySend returns
BackoffWake ==
    /\ pc = "waits"
    /\ wt.pc = "backoff"
    /\ wt.left = 0
    /\ wt' = [wt EXCEPT !.cur = BackoffNext(wt.cur), !.hit = FALSE,
                        !.late = IF wt.hit THEN "backoff" ELSE @,
                        !.pc = AfterTrySend(wt), !.after = "loop"]
    /\ UNCHANGED <<agentVars, bk, ev, lc, ws, wal, sf>>

\* Run, lines 123-128 and 133-138: the timer of the poll select fires
PollTimer ==
    /\ pc = "waits"
    /\ wt.pc = "poll"
    /\ wt.left = 0
    /\ ~wt.hit
    /\ wt' = [wt EXCEPT !.pc = "top"]
    /\ UNCHANGED <<agentVars, bk, ev, lc, ws, wal, sf>>

\* Run, lines 123-128 and 133-138: the poll select takes ctx.Done
PollCancel ==
    /\ pc = "waits"
    /\ wt.pc = "poll"
    /\ wt.cancelled
    /\ wt' = [wt EXCEPT !.pc = "done", !.hit = FALSE]
    /\ UNCHANGED <<agentVars, bk, ev, lc, ws, wal, sf>>

\* Stop, or the parent context, cancels the context of the run
CancelRun ==
    /\ pc = "waits"
    /\ wt.pc # "done"
    /\ ~wt.cancelled
    /\ wt' = [wt EXCEPT !.cancelled = TRUE,
                        !.hit = wt.pc \in {"poll", "backoff"} /\ wt.left > 0]
    /\ UNCHANGED <<agentVars, bk, ev, lc, ws, wal, sf>>

WtStep == LoopTop \/ LoopNext \/ SendFails \/ SendSucceeds \/ TimePasses
             \/ BackoffWake \/ PollTimer \/ PollCancel \/ CancelRun

SpecWaits == WtInit /\ [][WtStep]_vars

\* ------------------------- the persisted position across rotation
\* The path of an index file as State.IdxPath holds it, and the index file a
\* path names
IdxPathOf(i) == "day-" \o ToString(i.day) \o "/seg-" \o ToString(i.seg)
                   \o ".wal.idx"
IndexAt(path) == CHOOSE i \in AllIndexes : IdxPathOf(i) = path

\* the state Run works with: what Load returned, or the empty state when
\* Load failed
LoadOrEmpty(ok) == IF ok THEN Load ELSE EmptyState

\* IndexReader.Open: the index file of the state, or the oldest one when the
\* state names none
OpenAt(s) == IF s.IdxPath = "" THEN [at |-> oldestIndex(dir), off |-> 0]
             ELSE [at |-> IndexAt(s.IdxPath), off |-> s.IdxOffset]

\* a frame read at offset off of the current index, its line ll bytes long
FrameAt(off, ll) == [line |-> off, sz |-> 1, ll |-> ll, rd |-> 0]

PosInit ==
    /\ cfg = [max |-> MaxBatchBytes, send |-> SendInterval,
              hard |-> HardInterval, once |-> FALSE]
    /\ idx = <<>>
    /\ avail = 0
    /\ faults = 0
    /\ pc = "closed"
    /\ InitMemory
    /\ dir \in {d \in RotateDirs : oldestIndex(d) # NoIndex}
    /\ curIdx = NoIndex
    /\ ret = NoRet
    /\ lc = NewLifecycle

\* Run, lines 81-95: Load, which may fail and leave the empty state, then
\* Reader.Open
PosStart ==
    /\ pc = "closed"
    /\ \E ok \in BOOLEAN :
          /\ ok \/ (disk.exists /\ faults < MaxFaults)
          /\ faults' = IF ok THEN faults ELSE faults + 1
          /\ st' = LoadOrEmpty(ok)
          /\ OpenAt(LoadOrEmpty(ok)).at # NoIndex
          /\ curIdx' = OpenAt(LoadOrEmpty(ok)).at
          /\ idxOff' = OpenAt(LoadOrEmpty(ok)).off
    /\ pc' = "tailing"
    /\ UNCHANGED <<cfg, bk, wt, ev, ws, wal, sf, lc, idx, avail, dir, ret,
                   cursor, batch, sinceSend, disk, boCur, after, shouldSend,
                   cancelled, lastReq, retry, acked, ackedRd, sentRd, events,
                   sleeps, nread, run, ops, gateOK, owed>>

\* Next, lines 86-133, and Run, line 161: a frame of the current index is
\* read and added to the batch
PosRead ==
    /\ pc = "tailing"
    /\ Len(batch.Frames) < NumLines
    /\ \E ll \in 1..NumLines :
          /\ idxOff + ll <= NumLines
          /\ idxOff' = idxOff + ll
          /\ batch' = BatchAdd(batch, FrameAt(idxOff, ll),
                               [line |-> idxOff, n |-> 1], ll)
    /\ UNCHANGED <<cfg, bk, wt, ev, ws, wal, sf, lc, idx, avail, dir, curIdx,
                   ret, cursor, sinceSend, st, disk, boCur, pc, after,
                   shouldSend, cancelled, lastReq, retry, acked, ackedRd,
                   sentRd, events, sleeps, nread, run, faults, ops, gateOK,
                   owed>>

\* Next, lines 88-97: at the end of the current index a newer one exists,
\* advanceToIndex
PosAdvance ==
    /\ pc = "tailing"
    /\ nextIndexAfter(curIdx) # NoIndex
    /\ curIdx' = nextIndexAfter(curIdx)
    /\ idxOff' = 0
    /\ UNCHANGED <<cfg, bk, wt, ev, ws, wal, sf, lc, idx, avail, dir, ret,
                   cursor, batch, sinceSend, st, disk, boCur, pc, after,
                   shouldSend, cancelled, lastReq, retry, acked, ackedRd,
                   sentRd, events, sleeps, nread, run, faults, ops, gateOK,
                   owed>>

\* the State trySend commits here: UpdateAfterSend, then the reader's
\* position
PosState ==
    [UpdateAfterSend(st, TotalIdxAdvance(batch), LastFrame(batch).line)
        EXCEPT !.IdxPath = IdxPathOf(curIdx), !.IdxOffset = idxOff]

\* trySend, lines 233-264: Send has succeeded; Save may fail
PosCommit ==
    /\ pc = "tailing"
    /\ HasPending(batch)
    /\ st' = PosState
    /\ \/ disk' = [exists |-> TRUE, state |-> PosState] /\ faults' = faults
       \/ faults < MaxFaults /\ disk' = disk /\ faults' = faults + 1
    /\ batch' = BatchReset(batch)
    /\ UNCHANGED <<cfg, bk, wt, ev, ws, wal, sf, lc, idx, avail, dir, curIdx,
                   ret, cursor, idxOff, sinceSend, boCur, pc, after,
                   shouldSend, cancelled, lastReq, retry, acked, ackedRd,
                   sentRd, events, sleeps, nread, run, ops, gateOK, owed>>

\* the process ends and a new one is started
PosRestart ==
    /\ pc = "tailing"
    /\ faults < MaxFaults
    /\ faults' = faults + 1
    /\ run' = run + 1
    /\ batch' = NewBatch
    /\ st' = EmptyState
    /\ curIdx' = NoIndex
    /\ idxOff' = 0
    /\ pc' = "closed"
    /\ UNCHANGED <<cfg, bk, wt, ev, ws, wal, sf, lc, idx, avail, dir, ret,
                   cursor, sinceSend, disk, boCur, after, shouldSend,
                   cancelled, lastReq, retry, acked, ackedRd, sentRd, events,
                   sleeps, nread, ops, gateOK, owed>>

PosStep == PosStart \/ PosRead \/ PosAdvance \/ PosCommit \/ PosRestart

SpecPosition == PosInit /\ [][PosStep]_vars

\* ------------------------------ the state-change events of a Walship
EvInit ==
    /\ cfg = [max |-> MaxBatchBytes, send |-> SendInterval,
              hard |-> HardInterval, once |-> FALSE]
    /\ idx = <<>>
    /\ avail = 0
    /\ faults = 0
    /\ pc = "events"
    /\ InitAgent
    /\ dir = OneIndexDir
    /\ curIdx = FirstIndex
    /\ ret = NoRet
    /\ lc = NewLifecycle
    /\ ws = IdleWalship
    /\ wal = NoWal
    /\ sf = NoStateDir
    /\ bk = NoBackoff
    /\ wt = NoWaits
    /\ ev = NewHandler

\* Start, lines 148-158: CanStart, then TransitionTo(Starting) under the
\* lifecycle's lock (a Start made while the goroutine of an earlier Start is
\* still alive is left out)
EvStart ==
    /\ pc = "events"
    /\ ev.pc["caller"] = "idle"
    /\ ev.pc["worker"] = "idle"
    /\ ev.napi < MaxApiCalls
    /\ CanStart(lc.state)
    /\ lc' = Transit(lc, "Starting")
    /\ ev' = [Locked(ev, "caller", lc', "emitStarting", "idle")
                 EXCEPT !.napi = @ + 1, !.cancelled = FALSE]
    /\ UNCHANGED <<agentVars, bk, wt, ws, wal, sf>>

\* TransitionTo, lines 113-116: OnStateChange, called after the lock is
\* released
EvEmit(t) ==
    /\ pc = "events"
    /\ ev.pend[t] # NoEvent
    /\ ev' = [ev EXCEPT !.log = Append(@, ev.pend[t]),
                        !.pend[t] = NoEvent,
                        !.pc[t] = AfterEmit[ev.pc[t]]]
    /\ UNCHANGED <<agentVars, bk, wt, lc, ws, wal, sf>>

\* Start, lines 199-220: the agent goroutine is started and Start returns
EvSpawn ==
    /\ pc = "events"
    /\ ev.pc["caller"] = "spawn"
    /\ ev' = [ev EXCEPT !.pc["caller"] = "idle", !.pc["worker"] = "spawned"]
    /\ UNCHANGED <<agentVars, bk, wt, lc, ws, wal, sf>>

\* the agent goroutine, lines 204-208: TransitionTo(Running) under the lock
EvWorkerRunning ==
    /\ pc = "events"
    /\ ev.pc["worker"] = "spawned"
    /\ lc' = Transit(lc, "Running")
    /\ ev' = Locked(ev, "worker", lc', "emitRunning", "idle")
    /\ UNCHANGED <<agentVars, bk, wt, ws, wal, sf>>

\* the agent goroutine, lines 211-217: Agent.Run returns; an error other
\* than context.Canceled makes it call TransitionTo(Crashed)
EvWorkerReturn ==
    /\ pc = "events"
    /\ ev.pc["worker"] = "run"
    /\ \E err \in {"nil", "error"} \cup
                  (IF ev.cancelled THEN {"Canceled"} ELSE {}) :
          IF err = "error"
          THEN /\ lc' = Transit(lc, "Crashed")
               /\ ev' = Locked(ev, "worker", lc', "emitCrashed", "idle")
          ELSE /\ lc' = lc
               /\ ev' = [ev EXCEPT !.pc["worker"] = "idle"]
    /\ UNCHANGED <<agentVars, bk, wt, ws, wal, sf>>

\* Stop, lines 228-239: CanStop, then TransitionTo(Stopping) under the lock
EvStop ==
    /\ pc = "events"
    /\ ev.pc["caller"] = "idle"
    /\ ev.napi < MaxApiCalls
    /\ CanStop(lc.state)
    /\ lc' = Transit(lc, "Stopping")
    /\ ev' = [Locked(ev, "caller", lc', "emitStopping", "idle")
                 EXCEPT !.napi = @ + 1]
    /\ UNCHANGED <<agentVars, bk, wt, ws, wal, sf>>

\* Stop, lines 242-249: the context is cancelled and Stop waits
EvStopCancel ==
    /\ pc = "events"
    /\ ev.pc["caller"] = "cancel"
    /\ ev' = [ev EXCEPT !.pc["caller"] = "wait", !.cancelled = TRUE]
    /\ UNCHANGED <<agentVars, bk, wt, lc, ws, wal, sf>>

\* Stop, lines 249-276: the wait ends, with the worker gone or by timeout,
\* then TransitionTo(Stopped) or TransitionTo(Crashed) under the lock
EvStopFinish ==
    /\ pc = "events"
    /\ ev.pc["caller"] = "wait"
    /\ \E timeout \in BOOLEAN :
          /\ ~timeout => ev.pc["worker"] = "idle"
          /\ lc' = Transit(lc, IF timeout THEN "Crashed" ELSE "Stopped")
    /\ ev' = Locked(ev, "caller", lc', "emitFinal", "idle")
    /\ UNCHANGED <<agentVars, bk, wt, ws, wal, sf>>

EvStep ==
    \/ EvStart
    \/ \E t \in Threads : EvEmit(t)
    \/ EvSpawn
    \/ EvWorkerRunning
    \/ EvWorkerReturn
    \/ EvStop
    \/ EvStopCancel
    \/ EvStopFinish

SpecEvents == EvInit /\ [][EvStep]_vars

\* ------------------------------ one Walship stopped and started again
\* Stop has returned and Start is called on the same Walship: the goroutine
\* calls Run again on the agent New built, with the batcher and the reader it
\* had; only the context is new
RunAgain ==
    /\ pc = "done"
    /\ faults < MaxFaults
    /\ faults' = faults + 1
    /\ run' = run + 1
    /\ nread' = 0
    /\ lastReq' = NoReq
    /\ retry' = FALSE
    /\ sentRd' = {}
    /\ cancelled' = FALSE
    /\ shouldSend' = FALSE
    /\ events' = <<>>
    /\ sleeps' = 0
    /\ pc' = "init"
    /\ UNCHANGED <<cfg, bk, wt, ev, ws, wal, sf, lc, avail, dir, curIdx, ret,
                   idx, cursor, idxOff, batch, sinceSend, st, disk, boCur,
                   after, acked, ackedRd, ops, gateOK, owed>>

NextAgain ==
    \/ RunStart
    \/ CancelExit
    \/ ReadFrame
    \/ ReadEOF
    \/ ReadError
    \/ PollWake
    \/ TrySendFail
    \/ TrySendOK
    \/ Cancel
    \/ Tick
    \/ RunAgain

SpecRestart == Init /\ [][NextAgain]_vars

\* ------------------------------------------------------------- claims
\* a step in which trySend made its Send call
SendStep == pc = "flush" /\ pc' \in {"loop", "poll", "done"}

ReqFrame(q, i) == q.frames[i].Frame

\* C1: every frame whose index line starts before the idx_offset stored in
\* status.json was in a batch for which Send returned success.
C1_PersistedOffsetAcked ==
    disk.exists =>
        \A i \in 1..Len(idx) :
            LineStart(i) < disk.state.IdxOffset => i \in acked

\* C2: on every successful send, the idx_offset of State grows by the sum of
\* the idx_line_len of exactly the frames of the sent batch.
C2_DeltaIsBatchAdvance ==
    [][(SendStep /\ lastReq'.ok) =>
        st'.IdxOffset - st.IdxOffset =
            SumSeq([i \in 1..Len(lastReq'.frames) |-> ReqFrame(lastReq', i).ll])]_vars

\* C3: inside one request the frames are listed in the order Next returned
\* them, and every frame of a request was read after every frame of the
\* requests acknowledged before it.
C3_WireOrder ==
    [][SendStep =>
        /\ \A i, j \in 1..Len(lastReq'.frames) :
              i < j => /\ ReqFrame(lastReq', i).rd < ReqFrame(lastReq', j).rd
                       /\ ReqFrame(lastReq', i).line < ReqFrame(lastReq', j).line
        /\ \A i \in 1..Len(lastReq'.frames) :
              ReqFrame(lastReq', i).rd > ackedRd]_vars

\* a request has been sent after an earlier one was acknowledged, with
\* frames read after the acknowledged ones
C3_Witness ==
    /\ lastReq.frames # <<>>
    /\ ~lastReq.ok
    /\ ackedRd > 0
    /\ \A i \in 1..Len(lastReq.frames) : ReqFrame(lastReq, i).rd > ackedRd

\* C4: a failed Send leaves State, status.json and the batch as they were,
\* resets neither the batcher nor the backoff, sleeps once in the backoff and
\* emits one send-error event with retryable = true.
C4_FailedSendKeepsState ==
    [][(SendStep /\ ~lastReq'.ok) =>
        /\ st' = st
        /\ disk' = disk
        /\ batch' = batch
        /\ lastReq'.frames = batchToFrameData(batch')
        /\ sinceSend' >= sinceSend
        /\ boCur' > DefaultBackoffInitial
        /\ boCur' >= boCur
        /\ sleeps' = 1
        /\ Len(events') = 1
        /\ events'[1].kind = "SendError"
        /\ events'[1].retryable]_vars

\* a Send has failed with the batch still pending
C4_Witness ==
    /\ lastReq.frames # <<>>
    /\ ~lastReq.ok
    /\ sleeps = 1
    /\ HasPending(batch)

\* C5, as claimed: the Send call after a failed one carries exactly the
\* frames of the failed request.
C5_RetrySameManifest ==
    [][(SendStep /\ lastReq.frames # <<>> /\ ~lastReq.ok) =>
        lastReq'.frames = lastReq.frames]_vars

\* C5, amended: the Send call after a failed one, in the same run, carries a
\* batch that starts with exactly the frames of the failed request, in the
\* same order; frames read in between follow them.
C5_RetryKeepsPrefix ==
    [][(SendStep /\ lastReq.frames # <<>> /\ ~lastReq.ok) =>
        /\ Len(lastReq.frames) <= Len(lastReq'.frames)
        /\ \A i \in 1..Len(lastReq.frames) :
              lastReq'.frames[i] = lastReq.frames[i]]_vars

\* the Send call after a failed one has been made, with a frame more
C5_Witness ==
    /\ retry
    /\ Len(lastReq.frames) >= 2

\* C6: at the end of a loop iteration every frame Next has returned in this
\* run is in the pending batch or has been passed to Send.
C6_NoFrameDropped ==
    pc \in {"loop", "poll", "done"} =>
        \A k \in 1..nread :
            Stamp(run, k) \in FrameRds(batch) \cup sentRd

\* C7: a Send call that carries a frame larger than max_batch_bytes carries
\* that frame alone; a request of two or more frames is within the cap.
C7_LargeFrameAlone ==
    /\ \A i \in 1..Len(lastReq.frames) :
          ReqFrame(lastReq, i).sz > cfg.max => Len(lastReq.frames) = 1
    /\ Len(lastReq.frames) >= 2 =>
          SumSeq([i \in 1..Len(lastReq.frames) |-> ReqFrame(lastReq, i).sz])
              <= cfg.max

\* an Add appended a frame and brought total_bytes to exactly the cap
AddToCap ==
    /\ pc = "loop"
    /\ nread' = nread + 1
    /\ Len(batch'.Frames) = Len(batch.Frames) + 1
    /\ batch'.TotalBytes = cfg.max

\* C8, as claimed: the Add that brings total_bytes to exactly
\* max_batch_bytes returns the size trigger.
C8_CapTriggers ==
    [][AddToCap => shouldSend']_vars

\* C8, amended: the Add that brings total_bytes to exactly max_batch_bytes
\* appends the frame and returns false; the agent goes on to flush in that
\* iteration only when the time trigger ShouldSend() holds.
C8_CapDoesNotTrigger ==
    [][AddToCap =>
        /\ ~shouldSend'
        /\ (pc' = "flush" => ShouldSend(batch', sinceSend))]_vars

\* a batch exactly at the cap is still pending at the top of the loop
C8_Witness ==
    /\ pc = "loop"
    /\ nread > 0
    /\ batch.TotalBytes = cfg.max
    /\ HasPending(batch)
    /\ ~shouldSend

\* C9: the three lists of the batch have one length and go together,
\* total_bytes is the sum of the blob lengths, TotalIdxAdvance() the sum of
\* the line lengths; after Reset all is empty, and Reset; Add(x) gives {x}.
C9_BatchShape ==
    /\ Len(batch.Frames) = Len(batch.CompressedData)
    /\ Len(batch.Frames) = Len(batch.IdxLineLengths)
    /\ \A i \in 1..Len(batch.Frames) :
          /\ batch.CompressedData[i].line = batch.Frames[i].line
          /\ batch.IdxLineLengths[i] = batch.Frames[i].ll
    /\ batch.TotalBytes =
          SumSeq([i \in 1..Len(batch.CompressedData) |->
                      BlobLen(batch.CompressedData[i])])
    /\ TotalIdxAdvance(batch) =
          SumSeq([i \in 1..Len(batch.Frames) |-> batch.Frames[i].ll])
    /\ (ops = <<>> => batch = NewBatch)
    /\ (Len(ops) = 1 =>
          /\ batch.Frames = ops
          /\ batch.TotalBytes = ops[1].sz
          /\ TotalIdxAdvance(batch) = ops[1].ll)

\* Reset, then one Add, after earlier Adds
C9_Witness ==
    /\ pc = "batcher"
    /\ nread >= 2
    /\ Len(ops) = 1
    /\ Len(batch.Frames) = 1

\* C10, as claimed: ShouldSend() iff non-empty and elapsed >= send_interval,
\* ShouldForceSend() iff non-empty and elapsed >= hard_interval.
C10_SendIffSoftInterval ==
    /\ ShouldSend(batch, sinceSend) <=>
          (~BatchEmpty(batch) /\ sinceSend >= cfg.send)
    /\ ShouldForceSend(batch, sinceSend) <=>
          (~BatchEmpty(batch) /\ sinceSend >= cfg.hard)

\* C10, amended: ShouldSend() iff non-empty and elapsed has reached the
\* smaller of send_interval and hard_interval; ShouldForceSend() as claimed.
C10_SendIffEitherInterval ==
    /\ ShouldSend(batch, sinceSend) <=>
          (~BatchEmpty(batch) /\ sinceSend >= Min(cfg.send, cfg.hard))
    /\ ShouldForceSend(batch, sinceSend) <=>
          (~BatchEmpty(batch) /\ sinceSend >= cfg.hard)

\* hard_interval < send_interval, and the elapsed time lies between them
C10_Witness ==
    /\ pc = "batcher"
    /\ ~BatchEmpty(batch)
    /\ cfg.hard <= sinceSend
    /\ sinceSend < cfg.send

ForcedFlushDue ==
    /\ pc = "loop"
    /\ nread' = nread + 1
    /\ ~BatchEmpty(batch')
    /\ sinceSend >= cfg.hard

\* C12: once the time since the last send has reached hard_interval, the
\* loop step that evaluates the flush of a non-empty batch goes on to Send,
\* whatever the gate answers.
C12_HardIntervalForces ==
    [][ForcedFlushDue => pc' = "flush"]_vars

\* the hard interval let a flush pass a closed gate: trySend is running
C12_Witness ==
    /\ pc = "flush"
    /\ after = "loop"
    /\ ~gateOK
    /\ HasPending(batch)
    /\ sinceSend >= cfg.hard

\* C13: when Next reports end of data with a non-empty batch, the agent
\* goes to trySend, which makes one Send call of the pending batch, before
\* Run returns (one-shot mode) or the poll_interval sleep starts.
C13_FlushAtEndOfData ==
    [][/\ (pc = "loop" /\ ~cancelled /\ ReaderNext(cursor).kind = "eof"
               /\ pc' \in {"poll", "done"})
          => BatchEmpty(batch)
       /\ (pc = "flush" /\ after = "eof" /\ pc' \in {"poll", "done"})
          => /\ lastReq'.frames = batchToFrameData(batch)
             /\ lastReq'.frames # <<>>
             /\ pc' = (IF cfg.once THEN "done" ELSE "poll")]_vars

\* one-shot mode: Run has returned after an end-of-data flush of two frames
C13_Witness ==
    /\ cfg.once
    /\ pc = "done"
    /\ ~cancelled
    /\ Len(lastReq.frames) = 2
    /\ cursor = FileLen

\* the run has read the index to its end and nothing is pending
RunDrained ==
    /\ pc \in {"poll", "done"}
    /\ ~cancelled
    /\ cursor = FileLen
    /\ BatchEmpty(batch)

\* C14: after a kill between a successful Send and Save, the restarted agent
\* starts reading at the persisted position and, by the time it has read
\* the index to its end with nothing pending, has passed every frame of that
\* batch to Send again.
C14_KilledBatchResent ==
    /\ (pc = "loop" /\ nread = 0 /\ lastReq = NoReq /\ idxOff = cursor)
          => idxOff = Load.IdxOffset
    /\ RunDrained => owed = {}

\* C15: in every reader state, a new reader opened at CurrentPosition()
\* returns as its first frame the frame the original reader would return
\* next; idx_offset is the start of an index line, and no frame at or after
\* it has been returned.
C15_ReplaySameNextFrame ==
    pc = "reader" =>
        /\ NextFrameFrom(idxOff) = NextFrameFrom(cursor)
        /\ \E i \in 1..(Len(idx) + 1) : idxOff = LineStart(i)
        /\ ret.kind = "frame" => LineStart(ret.line) < idxOff

\* a step that is one call of Next by the reader on its own
NextCall ==
    /\ pc = "reader"
    /\ idx' = idx
    /\ avail' = avail
    /\ ret'.kind # "none"

\* the reader is at the first byte of a line written in full
AtWholeLine ==
    /\ cursor < avail
    /\ cursor = LineStart(LineAt(cursor))
    /\ LineStart(LineAt(cursor) + 1) <= avail

\* C17: Next on a line whose blob file does not exist yet returns end of
\* data and leaves the read cursor before that line.
C17_MissingBlobIsEndOfData ==
    [][(NextCall /\ AtWholeLine /\ idx[LineAt(cursor)].json
            /\ ~idx[LineAt(cursor)].good)
        => /\ ret'.kind = "eof"
           /\ cursor' = cursor
           /\ idxOff' = idxOff]_vars

\* C18: Next on a line whose newline is not written yet returns end of data
\* and the next Next reads that line again from its first byte.
C18_TruncatedLineRestarts ==
    [][(NextCall /\ cursor < avail /\ cursor = LineStart(LineAt(cursor))
            /\ LineStart(LineAt(cursor) + 1) > avail
            /\ idx[LineAt(cursor)].good)
        => /\ ret'.kind = "eof"
           /\ cursor' = cursor
           /\ idxOff' = idxOff]_vars

\* C19: a read error on a complete index line that does not parse ends Run:
\* the agent does not go on to the poll sleep and the following lines.
C19_MalformedLineIsFatal ==
    [][(pc = "loop" /\ ~cancelled /\ AtWholeLine
            /\ ~idx[LineAt(cursor)].json /\ cursor' # cursor)
        => pc' = "done"]_vars

\* (day, segment) order of index paths
PathLess(a, b) == a.day < b.day \/ (a.day = b.day /\ a.seg < b.seg)

\* C16: at the end of seg-N the reader goes to seg-(N+1) of the same day if
\* it exists, else to seg-000001 of the smallest later day directory if that
\* file exists, else it stays and reports end of data; every index it opens
\* is later in (day, segment) order than the one before.
C16_RotationOrder ==
    [][(pc = "rotate" /\ ret' # ret) =>
        LET sameDay == [day |-> curIdx.day, seg |-> curIdx.seg + 1]
            later == {d \in dir.days : d > curIdx.day}
            nextDay == [day |-> SetMin(later), seg |-> 1]
        IN /\ sameDay \in dir.files => curIdx' = sameDay
           /\ (sameDay \notin dir.files /\ later # {} /\ nextDay \in dir.files)
                 => curIdx' = nextDay
           /\ (sameDay \notin dir.files
                   /\ (later = {} \/ nextDay \notin dir.files))
                 => curIdx' = curIdx /\ ret'.kind = "eof"
           /\ curIdx' # curIdx
                 => PathLess(curIdx, curIdx') /\ idxOff' = 0]_vars

\* the reader has gone from the last segment of a day to seg-000001 of the
\* next day directory while a later day directory exists as well
C16_Witness ==
    /\ pc = "rotate"
    /\ ret.kind = "index"
    /\ curIdx = [day |-> 2, seg |-> 1]
    /\ 3 \in dir.days
    /\ [day |-> 1, seg |-> 2] \notin dir.files

\* C20: TransitionTo succeeds, sets the state and emits the event exactly
\* for the nine pairs; for any other pair it returns not-running (from
\* Stopped or Crashed) or already-running, keeps the state and emits nothing.
C20_NineTransitions ==
    LET NinePairs ==
            {<<"Stopped", "Starting">>, <<"Starting", "Running">>,
             <<"Starting", "Stopping">>, <<"Starting", "Crashed">>,
             <<"Running", "Stopping">>, <<"Running", "Crashed">>,
             <<"Stopping", "Stopped">>, <<"Stopping", "Crashed">>,
             <<"Crashed", "Starting">>}
    IN (pc = "lifecycle" /\ lc.calls > 0) =>
          IF <<lc.from, lc.to>> \in NinePairs
          THEN lc.err = "nil" /\ lc.state = lc.to /\ lc.emitted
          ELSE /\ lc.err = (IF lc.from \in {"Stopped", "Crashed"}
                            THEN "ErrNotRunning" ELSE "ErrAlreadyRunning")
               /\ lc.state = lc.from
               /\ ~lc.emitted

\* a caller passes the check of Start and goes on inside the call
StartAccepted == \E c \in Callers : ws.call[c].op = "none"
                                    /\ ws'.call[c].op = "Start"

\* a Start call is made and returns at once
StartReturnsAtOnce ==
    /\ ws'.napi = ws.napi + 1
    /\ ws'.call = ws.call
    /\ ~(ws'.stops /\ ~ws.stops)
    /\ ws'.last.op = "Start"

\* the part of the facade a call leaves alone when it has no side effect
FacadeCore(w) == [mu |-> w.mu, call |-> w.call, nctx |-> w.nctx,
                  done |-> w.done, worker |-> w.worker, wg |-> w.wg,
                  loops |-> w.loops, okStarts |-> w.okStarts]

\* the workers started so far
Started(w) == {k \in Ctxs : w.worker[k] # "none"}

StopCalled ==
    /\ ws'.napi = ws.napi + 1
    /\ \/ ws'.call = ws.call /\ ws'.last.op = "Stop"
       \/ \E c \in Callers : ws.call[c].op = "none"
                             /\ ws'.call[c].op = "Stop"

\* C22: a Stop call made while the state is Stopped, Stopping or Crashed
\* returns the not-running error at once and leaves the lifecycle, the
\* contexts, the workers and the plugins alone.
C22_StopWhenNotRunning ==
    [][(StopCalled /\ lc.state \in {"Stopped", "Stopping", "Crashed"})
          => /\ ws'.last.op = "Stop"
             /\ ws'.last.err = "ErrNotRunning"
             /\ ws'.last.log = <<>>
             /\ lc' = lc
             /\ FacadeCore(ws') = FacadeCore(ws)]_vars

\* a second Stop has been turned away while the first one, accepted, is
\* still waiting for the worker
C22_Witness ==
    /\ pc = "facade"
    /\ ws.last.op = "Stop"
    /\ ws.last.err = "ErrNotRunning"
    /\ ws.last.at = "Stopping"
    /\ \E c \in Callers : ws.call[c].op = "Stop" /\ ws.call[c].pc = "wait"

\* the TransitionTo(Stopping) step of a Stop call
StopTransits(c) ==
    /\ ws.call[c].op = "Stop"
    /\ ws.call[c].pc = "transition"
    /\ ws'.call[c] # ws.call[c]

\* C23: a Stop call made while the state is still Starting moves the
\* lifecycle to Stopping, cancels the run context and goes on to join the
\* worker instead of returning the already-running error.
C23_EarlyStopHonoured ==
    [][\A c \in Callers :
          (StopTransits(c) /\ lc.state = "Starting")
             => /\ lc'.state = "Stopping"
                /\ ws.nctx \in ws'.done
                /\ ws'.call[c].pc = "wait"]_vars

\* C24: a Stop call that got past TransitionTo(Stopping) returns nil with
\* the lifecycle at Stopped, or the shutdown-timeout error with the lifecycle
\* at Crashed, and nothing else.
C24_StopOutcome ==
    (pc = "facade" /\ ws.last.op = "Stop"
       /\ ws.last.err \in {"nil", "ErrShutdownTimeout"})
      => \/ ws.last.err = "nil" /\ ws.last.final = "Stopped"
         \/ ws.last.err = "ErrShutdownTimeout" /\ ws.last.final = "Crashed"

\* a Start call returns because a plugin's Initialize failed
StartFailsInInit(c) ==
    /\ ws.call[c].op = "Start"
    /\ ws'.call[c].op = "none"
    /\ ws'.last.err # "nil"

\* the plugins 1..n in registration order
InOrder(n) == [j \in 1..n |-> j]

\* the plugins n..1 in the reverse of the registration order
InReverse(n) == [j \in 1..n |-> n + 1 - j]

\* C25: Start calls Initialize in registration order, one plugin at a time;
\* when the k-th fails, no later plugin has been initialized, the run
\* context is cancelled, no worker and no cleanup loop has been started, the
\* lifecycle is at Crashed and Start returns the error; Start returns nil
\* only after all of them were initialized.
C25_InitInOrderFailureIsFatal ==
    /\ [](pc = "facade" =>
            \A c \in Callers :
               ws.call[c].op = "Start"
                  => /\ ws.call[c].log = InOrder(ws.call[c].i - 1)
                     /\ \A p \in 1..(ws.call[c].i - 1) : ~ws.initErr[p])
    /\ [][/\ \A c \in Callers :
                StartFailsInInit(c)
                   => LET k == Len(ws'.last.log)
                      IN /\ ws'.last.log = InOrder(k)
                         /\ ws.initErr[k]
                         /\ \A p \in 1..(k - 1) : ~ws.initErr[p]
                         /\ ws'.last.err = "init failed"
                         /\ ws.nctx \in ws'.done
                         /\ ws'.worker = ws.worker
                         /\ ws'.worker[ws.nctx] = "none"
                         /\ ws'.wg = ws.wg
                         /\ ws'.loops = ws.loops
                         /\ lc'.state = "Crashed"
          /\ ws'.okStarts # ws.okStarts
                => ws'.last.log = InOrder(NumPlugins)]_vars

\* Start has returned the error of the first registered plugin and has not
\* initialized the ones after it: Crashed, no worker, no cleanup loop
C25_Witness ==
    /\ pc = "facade"
    /\ ws.last.op = "Start"
    /\ ws.last.err = "init failed"
    /\ ws.last.log = InOrder(1)
    /\ NumPlugins > 1
    /\ ws.done = {ws.nctx}
    /\ lc.state = "Crashed"
    /\ ws.loops = 0
    /\ ws.wg = 0

RemovedNow == wal.gz \ wal'.gz

\* C27: a cleanup pass that read an idx_path with a day directory from
\* status.json removes segments of the WAL root and of strictly older day
\* directories only.
C27_ActiveDayAndLaterKept ==
    [][\A k \in RemovedNow :
          wal.seen.day # RootDay
             => k.day = RootDay \/ k.day < wal.seen.day]_vars

\* a pass that read the idx_path of the last day directory has removed a
\* segment of an older day, and the agent's directory is intact
C27_Witness ==
    /\ pc = "cleanup"
    /\ wal.seen.day = CleanDays
    /\ wal.removed # <<>>
    /\ \E j \in 1..Len(wal.removed) : wal.removed[j].day = CleanDays - 1
    /\ \E k \in wal.gz : k.day = CleanDays

\* C28: no step of the cleanup pass removes a segment of the directory the
\* agent's reader has open.
C28_OpenDirectoryKept ==
    [][\A k \in RemovedNow : k.day # curIdx.day]_vars

\* age order of the segments: the WAL root first, then the day directories
\* in ascending order, by segment number inside a directory
Older(a, b) == a.day < b.day \/ (a.day = b.day /\ a.seg < b.seg)

\* the candidates of the pass that has just ended: of the segments it found,
\* those of the WAL root and of the days before the active day, if any
Candidates == {k \in wal.scanGz : \/ k.day = RootDay
                                  \/ wal.seen.day = RootDay
                                  \/ k.day < wal.seen.day}

\* the bytes of the segments S as the pass found them
SegBytes(S) == walDirSize(S, S \cap wal.scanIdx)

\* C29: a pass that found the WAL root at or below the high watermark has
\* removed nothing; any other pass has removed, oldest first, the shortest
\* prefix of the age-ordered candidates that brings the total to the low
\* watermark or below, or all of them when that is not enough.
C29_ShortestOldestPrefix ==
    (pc = "cleanup" /\ wal.cpc = "done") =>
       LET R == Range(wal.removed)
           found == walDirSize(wal.scanGz, wal.scanIdx)
       IN /\ wal.startSize = found
          /\ found <= wal.high => wal.removed = <<>>
          /\ found > wal.high =>
                /\ R \subseteq Candidates
                /\ Cardinality(R) = Len(wal.removed)
                /\ \A i, j \in 1..Len(wal.removed) :
                      i < j => Older(wal.removed[i], wal.removed[j])
                /\ \A k \in R : \A j \in Candidates : Older(j, k) => j \in R
                /\ found - SegBytes(R) <= wal.low \/ R = Candidates
                /\ \A k \in R :
                      found - SegBytes({j \in R : Older(j, k)}) > wal.low
                /\ wal.gz = wal.scanGz \ R

\* a pass has ended at the low watermark after removing the segments of the
\* WAL root and the first one of a day directory, leaving later candidates
C29_Witness ==
    /\ pc = "cleanup"
    /\ wal.cpc = "done"
    /\ Len(wal.removed) >= 2
    /\ wal.removed[1].day = RootDay
    /\ wal.removed[Len(wal.removed)].day # RootDay
    /\ Range(wal.removed) # Candidates
    /\ wal.curSize <= wal.low

\* the text of status.json, empty when there is no such file
StatusText(d) == IF d.json = NoInode THEN <<>> ELSE d.ino[d.json]

\* C30: status.json always holds the whole text of the state of the last
\* completed Save, so a Save that dies at any step leaves it as it was; a
\* read of status.json, whatever Save does meanwhile, returns the whole text
\* of the state the file held when the read began or of a state saved
\* since, never an empty, cut or mixed text.
C30_ReadsSeeWholeStates ==
    /\ [](pc = "save" =>
            /\ sf.json = NoInode => sf.committed = 0
            /\ sf.json # NoInode =>
                  sf.committed > 0 /\ StatusText(sf) = Full(sf.committed)
            /\ sf.rpc = "read" =>
                  \E v \in sf.rlo..sf.committed : v > 0 /\ sf.res = Full(v)
            /\ sf.rpc = "absent" => sf.rlo = 0)
    /\ [][StatusText(sf') # StatusText(sf)
            => sf.spc = "written" /\ sf'.spc = "idle"
               /\ StatusText(sf') = Full(sf.ver)]_vars

\* a read that began while status.json held the first state has returned
\* that whole state although the second Save finished during the read
C30_Witness ==
    /\ pc = "save"
    /\ sf.rpc = "read"
    /\ sf.rlo = 1
    /\ sf.res = Full(1)
    /\ sf.committed = 2
    /\ sf.tmp = NoInode

\* the last call was the first Sleep since Reset (or since NewBackoff)
FirstSleep == bk.last = "sleep" /\ bk.k = 1

\* C31: for a backoff with initial <= max, the first Sleep after Reset sleeps
\* within [0.8, 1.2] x initial; after k Sleep calls in a row since the last
\* Reset, current equals min(initial * 2^k, max); and initial <= current <=
\* max in every reachable state.
C31_BackoffContract ==
    /\ FirstSleep =>
          4 * bk.initial <= 5 * bk.slept /\ 5 * bk.slept <= 6 * bk.initial
    /\ bk.current = Min(bk.initial * 2 ^ bk.k, bk.max)
    /\ bk.initial <= bk.current
    /\ bk.current <= bk.max

\* C32: every wait of the agent loop honours cancellation: once the context
\* is cancelled, the loop reaches its return without completing a
\* poll_interval sleep or a Backoff.Sleep, whether the wait began before or
\* after the cancellation.
C32_WaitsHonourCancellation == wt.late = "none"

\* a step in which Run returns ctx.Err(): from the select at the top of the
\* loop, from a poll select, or after the flush made at the top of the loop
CancelReturn ==
    /\ pc' = "done"
    /\ \/ pc \in {"loop", "poll"}
       \/ pc = "flush" /\ after = "cancel"

\* C33: whenever Run returns because the context was cancelled while the
\* batch is non-empty, a flush of that batch (one Send call) was attempted
\* after the cancellation was observed, on every exit path.
C33_FlushOnEveryCancelExit ==
    [][(CancelReturn /\ HasPending(batch)) => pc = "flush"]_vars

\* the workers that are executing Agent.Run
AgentLoops == {k \in Ctxs : ws.worker[k] = "running"}

\* C34: status.json has a single writer: in every reachable state of a
\* Walship instance at most one agent loop is running, across every sequence
\* of Start, Stop, worker crash, shutdown timeout and restart.
C34_SingleAgentLoop == Cardinality(AgentLoops) <= 1

\* C36: whenever Status() reports Running, the agent worker of the instance
\* is executing Agent.Run: a worker that has returned is never left with the
\* lifecycle state at Running.
C36_RunningMeansWorkerAlive == lc.state = "Running" => AgentLoops # {}

\* the persisted position a is not after b in (day, segment, offset) order
PosLE(a, b) ==
    LET i == IndexAt(a.IdxPath)
        j == IndexAt(b.IdxPath)
    IN \/ i.day < j.day
       \/ i.day = j.day /\ i.seg < j.seg
       \/ i = j /\ a.IdxOffset <= b.IdxOffset

\* C35: across the successive Save calls of one run and across restarts, the
\* persisted (idx_path, idx_offset) never moves backward in (day, segment
\* number, offset) order.
C35_PersistedPositionMonotonic ==
    [][(disk.exists /\ disk'.exists) => PosLE(disk.state, disk'.state)]_vars

\* C37: the state-change events delivered to the event handler form a chain
\* that mirrors the transitions: one event per successful transition, in the
\* order the transitions took effect, so each event's Previous equals the
\* Current of the event delivered before it, also when the Stop caller and
\* the agent worker transition concurrently.
C37_EventsFormChain ==
    \A i \in 2..Len(ev.log) : ev.log[i].Previous = ev.log[i - 1].Current

\* C38: every batch passed to Sender.Send holds pairwise distinct (file,
\* frame_number) entries, also after the same Walship is stopped with a batch
\* still pending and started again: the frames read again from the persisted
\* offset are not appended to the batch left over from the run before.
C38_SentFramesDistinct ==
    \A i, j \in 1..Len(lastReq.frames) :
        i # j => ReqFrame(lastReq, i).line # ReqFrame(lastReq, j).line

\* Run has returned nil: one-shot mode, Run is over and not by cancellation
CleanCompletion == cfg.once /\ pc = "done" /\ ~cancelled

\* C40: in one-shot mode Run returns nil only when every frame it read has
\* been acknowledged by the service and committed; if the final flush at the
\* end of data fails, Run does not report clean completion with frames still
\* unsent in the batch.
C40_OneShotCleanCompletion ==
    CleanCompletion =>
        /\ ~HasPending(batch)
        /\ nread > 0 =>
              /\ ackedRd = Stamp(run, nread)
              /\ disk.exists
              /\ disk.state.IdxOffset = idxOff


\* the lifecycle is at Stopped or Crashed and no caller is inside Start or
\* Stop
AtRest ==
    /\ pc = "facade"
    /\ lc.state \in {"Stopped", "Crashed"}
    /\ \A c \in Callers : ws.call[c].op = "none"

\* C39: whenever the lifecycle is at Stopped or Crashed and no Start or Stop
\* call is in progress, no cleanup loop of the instance is still running and
\* every plugin whose Initialize succeeded has had Shutdown called since; at
\* no time do two cleanup loops run side by side.
C39_NothingLeftRunningAtRest ==
    /\ Cardinality(LiveCleanupLoops) <= 1
    /\ AtRest => /\ LiveCleanupLoops = {}
                 /\ ws.up = {}

=============================================================================
